---- MODULE Spec2Model ----
(***************************************************************************)
(* Deal approval core of gtm-control-layer: rules configuration and        *)
(* threshold resolution (app/rules/config.py), the rule evaluation engine  *)
(* (app/rules/engine.py) and the routing engine (app/routing/engine.py).   *)
(*                                                                         *)
(* Numbers are integers: discounts in percent, contract values in          *)
(* currency units, payment terms in days.  A Python call is modelled by    *)
(* the value it returns together with the state of its arguments after     *)
(* the call (fields ret / self / deal / config / evaluation), so that a    *)
(* call which writes to an argument is visible in the model.               *)
(***************************************************************************)
EXTENDS Integers, Sequences, FiniteSets, TLC

VARIABLES
    config,            \* the RulesConfig the caller holds
    deal,              \* the ValidatedDeal under evaluation
    evaluation,        \* the EvaluationResult of the first evaluate_deal call
    evaluation_again,  \* the EvaluationResult of the second call
    decision,          \* the RoutingDecision of the first route_deal call
    decision_again,    \* the RoutingDecision of the second call
    local_thresholds,  \* evaluate_deal's local: the thresholds it resolved
    pc,                \* the caller's position
    deals_table,       \* the rows of the deals table, in insertion order
    overrides_table,   \* the rows of the overrides table, in insertion order
    sim_request,       \* the SimulationInput of the simulation request
    sim_result,        \* the SimulationResult of the first run_simulation
    sim_result_again,  \* the SimulationResult of the second run
    sim_locals,        \* run_simulation's locals: sim_config, and the
                       \* evaluation and decision of each simulated deal
    advisory_env,      \* the environment: ADVISORY_MODE, ANTHROPIC_API_KEY,
                       \* whether constructing the API client fails
    advisory_call,     \* a call of _live_analyze: its clause, the replies of
                       \* the API, its result and its number of requests
    response_plain,    \* the response to a submission without clause_text
    response_clause,   \* the response to the same submission with one
    intake_call,       \* the last construction of, or assignment to, a deal
    in_flight,         \* submissions between insert_deal and
                       \* update_deal_decision
    override_response, \* the response to the last override request
    metrics_result     \* the result of the last compute_metrics

\* the locals of the evaluate / route caller
core_vars ==
    <<deal, evaluation, evaluation_again, decision, decision_again,
      local_thresholds>>

\* the store and the simulation request
sim_vars ==
    <<deals_table, overrides_table, sim_request, sim_result, sim_result_again,
      sim_locals>>

\* the advisory environment, call and the pipeline responses
adv_vars == <<advisory_env, advisory_call, response_plain, response_clause>>

\* the intake call, the requests in flight and the last responses
api_vars == <<intake_call, in_flight, override_response, metrics_result>>

vars ==
    <<config, deal, evaluation, evaluation_again, decision, decision_again,
      local_thresholds, pc, deals_table, overrides_table, sim_request,
      sim_result, sim_result_again, sim_locals, advisory_env, advisory_call,
      response_plain, response_clause, intake_call, in_flight,
      override_response, metrics_result>>

(***************************************************************************)
(* Bounds of the model.                                                    *)
(***************************************************************************)
\* deal values reach this far above the largest threshold in use
MaxExcess == 1
\* number of triggers of a hand-built (synthetic) evaluation
MaxSynthetic == 3

(***************************************************************************)
(* app/intake/models.py                                                    *)
(***************************************************************************)
DealType == {"New", "Renewal", "Expansion", "Pilot"}

CustomerSegment == {"Enterprise", "Mid-Market", "SMB", "Strategic"}

Region == {"NA", "EU", "UK", "APAC", "LATAM", "MEA"}

\* uuid4().hex / datetime.now(): a fresh, arbitrary identity per construction
DealIdentities == {[id |-> 1, created_at |-> 1], [id |-> 2, created_at |-> 2]}

(***************************************************************************)
(* app/rules/config.py                                                     *)
(***************************************************************************)
DefaultDiscountThreshold == 20

DefaultAcvExecThreshold == 150000

DefaultPaymentTermsLimit == 45

DefaultEuRequiresLegal == TRUE

ThresholdFields ==
    {"discount_threshold", "acv_exec_threshold", "payment_terms_limit",
     "eu_requires_legal"}

\* ThresholdConfig(**kw): the built-in defaults with the given keys replaced;
\* fields_set records which keys were given (pydantic's model_fields_set).
ThresholdConfig(kw) ==
    [discount_threshold |->
        IF "discount_threshold" \in DOMAIN kw
        THEN kw["discount_threshold"] ELSE DefaultDiscountThreshold,
     acv_exec_threshold |->
        IF "acv_exec_threshold" \in DOMAIN kw
        THEN kw["acv_exec_threshold"] ELSE DefaultAcvExecThreshold,
     payment_terms_limit |->
        IF "payment_terms_limit" \in DOMAIN kw
        THEN kw["payment_terms_limit"] ELSE DefaultPaymentTermsLimit,
     eu_requires_legal |->
        IF "eu_requires_legal" \in DOMAIN kw
        THEN kw["eu_requires_legal"] ELSE DefaultEuRequiresLegal,
     fields_set |-> DOMAIN kw]

\* model_dump(): a new dict holding all four fields
model_dump(tc) == [f \in ThresholdFields |-> tc[f]]

\* Variant of the override dump without exclude_unset: all four fields.
model_dump_include_unset(tc) == [f \in ThresholdFields |-> tc[f]]

\* model_dump(exclude_unset=True): a new dict holding the explicitly set fields
model_dump_exclude_unset(tc) == [f \in tc.fields_set |-> tc[f]]

\* dict.update: the keys of other replace or extend those of base
dict_update(base, other) ==
    [k \in (DOMAIN base) \cup (DOMAIN other) |->
        IF k \in DOMAIN other THEN other[k] ELSE base[k]]

DefaultP1 == 5

DefaultP2 == 3

DefaultP3 == 1

PriorityCutoffs(p1, p2, p3) == [P1 |-> p1, P2 |-> p2, P3 |-> p3]

DefaultEscalationOrder == <<"Finance", "Legal", "Security", "Exec">>

DefaultRuleWeights ==
    [r \in {"DISCOUNT_THRESHOLD", "ACV_EXEC_THRESHOLD", "EU_LEGAL_REVIEW",
            "PAYMENT_TERMS_LIMIT", "CUSTOM_SECURITY_CLAUSE"} |->
        CASE r = "DISCOUNT_THRESHOLD" -> 2
          [] r = "ACV_EXEC_THRESHOLD" -> 3
          [] r = "EU_LEGAL_REVIEW" -> 2
          [] r = "PAYMENT_TERMS_LIMIT" -> 1
          [] r = "CUSTOM_SECURITY_CLAUSE" -> 3]

RulesConfig(defaults, segment_overrides, escalation_order, rule_weights, priority_cutoffs) ==
    [defaults |-> defaults,
     segment_overrides |-> segment_overrides,
     escalation_order |-> escalation_order,
     rule_weights |-> rule_weights,
     priority_cutoffs |-> priority_cutoffs]

\* Variant of resolve_thresholds in which base is self.defaults itself and
\* not a dump of it, so that the update writes through to the defaults.
resolve_thresholds_in_place(self, segment) ==
    IF segment \notin DOMAIN self.segment_overrides
    THEN [ret |-> self.defaults, self |-> self]
    ELSE LET base == model_dump(self.defaults)
             override ==
                 model_dump_exclude_unset(self.segment_overrides[segment])
             merged == ThresholdConfig(dict_update(base, override))
         IN  [ret |-> merged, self |-> [self EXCEPT !.defaults = merged]]

\* RulesConfig.resolve_thresholds: ret is the returned ThresholdConfig, self
\* the config after the call.
resolve_thresholds(self, segment) ==
    IF segment \notin DOMAIN self.segment_overrides
    THEN [ret |-> self.defaults, self |-> self]
    ELSE LET base == model_dump(self.defaults)
             override ==
                 model_dump_exclude_unset(self.segment_overrides[segment])
         IN  [ret |-> ThresholdConfig(dict_update(base, override)),
              self |-> self]

(***************************************************************************)
(* app/rules/engine.py                                                     *)
(***************************************************************************)
RuleTrigger(rule_id, triggered, owner, reason, weight) ==
    [rule_id |-> rule_id, triggered |-> triggered, owner |-> owner,
     reason |-> reason, weight |-> weight]

EvaluationResult(deal_id, triggers, total_weight, priority) ==
    [deal_id |-> deal_id, triggers |-> triggers,
     total_weight |-> total_weight, priority |-> priority]

\* Variant of _eval_discount comparing with >= instead of >.
eval_discount_inclusive(d, thresholds, weight) ==
    LET triggered == d.discount_percentage >= thresholds.discount_threshold
    IN  RuleTrigger("DISCOUNT_THRESHOLD", triggered, "Finance",
            IF triggered
            THEN <<"Discount", d.discount_percentage, "% exceeds threshold",
                   thresholds.discount_threshold, "%">>
            ELSE <<"Discount within threshold">>,
            IF triggered THEN weight ELSE 0)

eval_discount(d, thresholds, weight) ==
    LET triggered == d.discount_percentage > thresholds.discount_threshold
    IN  RuleTrigger("DISCOUNT_THRESHOLD", triggered, "Finance",
            IF triggered
            THEN <<"Discount", d.discount_percentage, "% exceeds threshold",
                   thresholds.discount_threshold, "%">>
            ELSE <<"Discount within threshold">>,
            IF triggered THEN weight ELSE 0)

\* Variant of _eval_acv that keeps the configured weight when not triggered.
eval_acv_weight_kept(d, thresholds, weight) ==
    LET triggered == d.annual_contract_value > thresholds.acv_exec_threshold
    IN  RuleTrigger("ACV_EXEC_THRESHOLD", triggered, "Exec",
            IF triggered
            THEN <<"ACV $", d.annual_contract_value, "exceeds threshold $",
                   thresholds.acv_exec_threshold>>
            ELSE <<"ACV within threshold">>,
            weight)

eval_acv(d, thresholds, weight) ==
    LET triggered == d.annual_contract_value > thresholds.acv_exec_threshold
    IN  RuleTrigger("ACV_EXEC_THRESHOLD", triggered, "Exec",
            IF triggered
            THEN <<"ACV $", d.annual_contract_value, "exceeds threshold $",
                   thresholds.acv_exec_threshold>>
            ELSE <<"ACV within threshold">>,
            IF triggered THEN weight ELSE 0)

\* Variant of _eval_eu_legal that does not read eu_requires_legal.
eval_eu_legal_any_flag(d, thresholds, weight) ==
    LET triggered == d.region = "EU"
    IN  RuleTrigger("EU_LEGAL_REVIEW", triggered, "Legal",
            IF triggered
            THEN <<"EU region requires legal review">>
            ELSE <<"Region does not require legal review">>,
            IF triggered THEN weight ELSE 0)

eval_eu_legal(d, thresholds, weight) ==
    LET triggered == d.region = "EU" /\ thresholds.eu_requires_legal
    IN  RuleTrigger("EU_LEGAL_REVIEW", triggered, "Legal",
            IF triggered
            THEN <<"EU region requires legal review">>
            ELSE <<"Region does not require legal review">>,
            IF triggered THEN weight ELSE 0)

eval_payment_terms(d, thresholds, weight) ==
    LET triggered == d.payment_terms_days > thresholds.payment_terms_limit
    IN  RuleTrigger("PAYMENT_TERMS_LIMIT", triggered, "Finance",
            IF triggered
            THEN <<"Payment terms", d.payment_terms_days,
                   "days exceeds limit of", thresholds.payment_terms_limit,
                   "days">>
            ELSE <<"Payment terms within limit">>,
            IF triggered THEN weight ELSE 0)

eval_security_clause(d, thresholds, weight) ==
    LET triggered == d.custom_security_clause
    IN  RuleTrigger("CUSTOM_SECURITY_CLAUSE", triggered, "Security",
            IF triggered
            THEN <<"Custom security clause requires review">>
            ELSE <<"No custom security clause">>,
            IF triggered THEN weight ELSE 0)

\* Variant of _RULE_EVALUATORS with two evaluators exchanged.
RULE_EVALUATORS_reordered ==
    <<"_eval_discount", "_eval_acv", "_eval_payment_terms", "_eval_eu_legal",
      "_eval_security_clause">>

\* _RULE_EVALUATORS: the evaluators by function name, in call order
RULE_EVALUATORS ==
    <<"_eval_discount", "_eval_acv", "_eval_eu_legal", "_eval_payment_terms",
      "_eval_security_clause">>

\* evaluator(deal, thresholds, weight) for the evaluator of that name
call_evaluator(name, d, thresholds, weight) ==
    CASE name = "_eval_discount" -> eval_discount(d, thresholds, weight)
      [] name = "_eval_acv" -> eval_acv(d, thresholds, weight)
      [] name = "_eval_eu_legal" -> eval_eu_legal(d, thresholds, weight)
      [] name = "_eval_payment_terms" ->
            eval_payment_terms(d, thresholds, weight)
      [] name = "_eval_security_clause" ->
            eval_security_clause(d, thresholds, weight)

rule_id_map ==
    [n \in {"_eval_discount", "_eval_acv", "_eval_eu_legal",
            "_eval_payment_terms", "_eval_security_clause"} |->
        CASE n = "_eval_discount" -> "DISCOUNT_THRESHOLD"
          [] n = "_eval_acv" -> "ACV_EXEC_THRESHOLD"
          [] n = "_eval_eu_legal" -> "EU_LEGAL_REVIEW"
          [] n = "_eval_payment_terms" -> "PAYMENT_TERMS_LIMIT"
          [] n = "_eval_security_clause" -> "CUSTOM_SECURITY_CLAUSE"]

\* dict.get(key, default)
dict_get(d, key, default) == IF key \in DOMAIN d THEN d[key] ELSE default

\* sum(t.weight for t in triggers)
RECURSIVE sum_weights(_)
sum_weights(triggers) ==
    IF triggers = <<>> THEN 0
    ELSE Head(triggers).weight + sum_weights(Tail(triggers))

\* Variant of _compute_priority comparing with > instead of >=.
compute_priority_strict(total_weight, cfg) ==
    LET cutoffs == cfg.priority_cutoffs
    IN  IF total_weight > cutoffs.P1 THEN "P1"
        ELSE IF total_weight > cutoffs.P2 THEN "P2"
        ELSE IF total_weight > cutoffs.P3 THEN "P3"
        ELSE "None"

compute_priority(total_weight, cfg) ==
    LET cutoffs == cfg.priority_cutoffs
    IN  IF total_weight >= cutoffs.P1 THEN "P1"
        ELSE IF total_weight >= cutoffs.P2 THEN "P2"
        ELSE IF total_weight >= cutoffs.P3 THEN "P3"
        ELSE "None"

\* The body of evaluate_deal, started with the list triggers0 (the code
\* starts with the empty list); ret is the EvaluationResult, thresholds the
\* local of that name, deal and config the arguments after the call.
evaluate_deal_from(d, cfg, triggers0) ==
    LET resolved == resolve_thresholds(cfg, d.customer_segment)
        thresholds == resolved.ret
        appended ==
            [i \in 1..Len(RULE_EVALUATORS) |->
                LET rid == rule_id_map[RULE_EVALUATORS[i]]
                    weight == dict_get(cfg.rule_weights, rid, 0)
                IN  call_evaluator(RULE_EVALUATORS[i], d, thresholds, weight)]
        triggers == triggers0 \o appended
        total_weight == sum_weights(triggers)
        priority == compute_priority(total_weight, resolved.self)
    IN  [ret |-> EvaluationResult(d.id, triggers, total_weight, priority),
         thresholds |-> thresholds,
         deal |-> d,
         config |-> resolved.self]

\* Variant of evaluate_deal whose trigger list outlives the call (a list
\* shared between calls): it still holds the triggers of the last result.
evaluate_deal_shared_list(d, cfg) ==
    evaluate_deal_from(d, cfg, evaluation.triggers)

evaluate_deal(d, cfg) == evaluate_deal_from(d, cfg, <<>>)

(***************************************************************************)
(* app/routing/engine.py                                                   *)
(***************************************************************************)
RoutingDecision(deal_id, approval_status, escalation_path, rule_triggers, auto_approved, priority, total_weight) ==
    [deal_id |-> deal_id, approval_status |-> approval_status,
     escalation_path |-> escalation_path, rule_triggers |-> rule_triggers,
     auto_approved |-> auto_approved, priority |-> priority,
     total_weight |-> total_weight]

Range(seq) == {seq[i] : i \in 1..Len(seq)}

\* Variant of the filter that keeps every trigger.
fired_triggers_unfiltered(triggers) == triggers

\* [t for t in evaluation.triggers if t.triggered]
fired_triggers(triggers) == SelectSeq(triggers, LAMBDA t : t.triggered)

\* Variant of the owner collection without the owners_seen test.
RECURSIVE all_owners(_, _, _)
all_owners(fired, owners_seen, unique_owners) ==
    IF fired = <<>> THEN unique_owners
    ELSE all_owners(Tail(fired), owners_seen \cup {Head(fired).owner},
                    Append(unique_owners, Head(fired).owner))

\* the loop collecting each owner at its first occurrence
RECURSIVE collect_unique_owners(_, _, _)
collect_unique_owners(fired, owners_seen, unique_owners) ==
    IF fired = <<>> THEN unique_owners
    ELSE LET owner == Head(fired).owner
         IN  IF owner \notin owners_seen
             THEN collect_unique_owners(Tail(fired),
                      owners_seen \cup {owner}, Append(unique_owners, owner))
             ELSE collect_unique_owners(Tail(fired), owners_seen,
                      unique_owners)

\* {team: idx for idx, team in enumerate(escalation_order)}, indices from 0;
\* a team listed twice keeps its last index
order_map(escalation_order) ==
    [team \in Range(escalation_order) |->
        (CHOOSE i \in 1..Len(escalation_order) :
            /\ escalation_order[i] = team
            /\ \A j \in 1..Len(escalation_order) :
                    escalation_order[j] = team => j <= i) - 1]

\* key=lambda t: order_map.get(t, len(config.escalation_order))
sort_key(t, escalation_order) ==
    dict_get(order_map(escalation_order), t, Len(escalation_order))

\* x placed behind every element whose key is not larger
RECURSIVE insert_stable(_, _, _)
insert_stable(x, sorted_seq, escalation_order) ==
    IF sorted_seq = <<>> THEN <<x>>
    ELSE IF sort_key(Head(sorted_seq), escalation_order)
                <= sort_key(x, escalation_order)
         THEN <<Head(sorted_seq)>>
                \o insert_stable(x, Tail(sorted_seq), escalation_order)
         ELSE <<x>> \o sorted_seq

\* sorted(unique_owners, key=...): a new list, ascending by key, stable
RECURSIVE sorted_by_order(_, _, _)
sorted_by_order(owners, acc, escalation_order) ==
    IF owners = <<>> THEN acc
    ELSE sorted_by_order(Tail(owners),
             insert_stable(Head(owners), acc, escalation_order),
             escalation_order)

\* Variant of route_deal that auto-approves on a total weight of 0.
route_deal_by_weight(ev, cfg) ==
    LET fired == fired_triggers(ev.triggers)
        unique_owners == collect_unique_owners(fired, {}, <<>>)
        escalation_path ==
            sorted_by_order(unique_owners, <<>>, cfg.escalation_order)
    IN  [ret |->
            IF ev.total_weight = 0
            THEN RoutingDecision(ev.deal_id, "Auto-Approved", <<>>,
                     ev.triggers, TRUE, ev.priority, ev.total_weight)
            ELSE RoutingDecision(ev.deal_id, "Escalated", escalation_path,
                     ev.triggers, FALSE, ev.priority, ev.total_weight),
         evaluation |-> ev,
         config |-> cfg]

\* Variant of route_deal whose auto-approve branch writes priority "None"
\* and total_weight 0 instead of the evaluation's values.
route_deal_auto_reset(ev, cfg) ==
    LET fired == fired_triggers(ev.triggers)
        unique_owners == collect_unique_owners(fired, {}, <<>>)
        escalation_path ==
            sorted_by_order(unique_owners, <<>>, cfg.escalation_order)
    IN  [ret |->
            IF fired = <<>>
            THEN RoutingDecision(ev.deal_id, "Auto-Approved", <<>>,
                     ev.triggers, TRUE, "None", 0)
            ELSE RoutingDecision(ev.deal_id, "Escalated", escalation_path,
                     ev.triggers, FALSE, ev.priority, ev.total_weight),
         evaluation |-> ev,
         config |-> cfg]

\* route_deal: ret is the RoutingDecision, evaluation and config the
\* arguments after the call.
route_deal(ev, cfg) ==
    LET fired == fired_triggers(ev.triggers)
        unique_owners == collect_unique_owners(fired, {}, <<>>)
        escalation_path ==
            sorted_by_order(unique_owners, <<>>, cfg.escalation_order)
    IN  [ret |->
            IF fired = <<>>
            THEN RoutingDecision(ev.deal_id, "Auto-Approved", <<>>,
                     ev.triggers, TRUE, ev.priority, ev.total_weight)
            ELSE RoutingDecision(ev.deal_id, "Escalated", escalation_path,
                     ev.triggers, FALSE, ev.priority, ev.total_weight),
         evaluation |-> ev,
         config |-> cfg]

(***************************************************************************)
(* Inputs: the configurations a rules document can hold and the deals a    *)
(* submission can carry.                                                   *)
(***************************************************************************)
BuiltinThresholds == ThresholdConfig(<<>>)

RaisedThresholds ==
    ThresholdConfig([discount_threshold |-> 25, acv_exec_threshold |-> 200000,
                     payment_terms_limit |-> 60, eu_requires_legal |-> FALSE])

\* defaults and segment_overrides of a rules document
ThresholdSettings ==
    { [defaults |-> BuiltinThresholds, segment_overrides |-> <<>>],
      [defaults |-> BuiltinThresholds,
       segment_overrides |->
          [s \in {"Enterprise"} |->
              ThresholdConfig([discount_threshold |-> 25])]],
      [defaults |-> RaisedThresholds,
       segment_overrides |->
          [s \in {"Enterprise", "SMB"} |->
              IF s = "Enterprise"
              THEN ThresholdConfig([discount_threshold |-> 20,
                                    eu_requires_legal |-> TRUE])
              ELSE ThresholdConfig([acv_exec_threshold |-> 150000,
                                    payment_terms_limit |-> 45])]],
      [defaults |-> BuiltinThresholds,
       segment_overrides |->
          [s \in {"Strategic", "SMB"} |->
              IF s = "Strategic"
              THEN RaisedThresholds
              ELSE ThresholdConfig([eu_requires_legal |-> FALSE])]] }

\* a weights document that leaves two rules out and gives one the weight 0
PartialRuleWeights ==
    [r \in {"DISCOUNT_THRESHOLD", "ACV_EXEC_THRESHOLD",
            "CUSTOM_SECURITY_CLAUSE"} |->
        CASE r = "DISCOUNT_THRESHOLD" -> 1
          [] r = "ACV_EXEC_THRESHOLD" -> 2
          [] r = "CUSTOM_SECURITY_CLAUSE" -> 0]

\* escalation_order, rule_weights and priority_cutoffs of a rules document
PolicySettings ==
    { [escalation_order |-> DefaultEscalationOrder,
       rule_weights |-> DefaultRuleWeights,
       priority_cutoffs |-> PriorityCutoffs(DefaultP1, DefaultP2, DefaultP3)],
      [escalation_order |-> <<"Exec", "Security", "Legal", "Finance">>,
       rule_weights |-> PartialRuleWeights,
       priority_cutoffs |-> PriorityCutoffs(1, 3, 5)],
      [escalation_order |-> <<"Legal">>,
       rule_weights |-> DefaultRuleWeights,
       priority_cutoffs |-> PriorityCutoffs(5, 3, 0)],
      [escalation_order |-> <<>>,
       rule_weights |-> PartialRuleWeights,
       priority_cutoffs |-> PriorityCutoffs(100, 50, 10)],
      [escalation_order |-> <<"Finance", "Legal", "Finance">>,
       rule_weights |-> DefaultRuleWeights,
       priority_cutoffs |-> PriorityCutoffs(DefaultP1, DefaultP2, DefaultP3)] }

Configs ==
    { RulesConfig(t.defaults, t.segment_overrides, p.escalation_order,
                  p.rule_weights, p.priority_cutoffs) :
        t \in ThresholdSettings, p \in PolicySettings }

SetMax(S) == CHOOSE x \in S : \A y \in S : y <= x

\* the values a threshold field takes over all configurations and segments
ThresholdsInUse(field) ==
    { resolve_thresholds(c, s).ret[field] : c \in Configs,
                                            s \in CustomerSegment }

\* every threshold in use, and up to MaxExcess above the largest
ValuesAround(T) == T \cup { SetMax(T) + k : k \in 1..MaxExcess }

\* The submissions: every segment, region and flag value, and numeric values
\* at and above the thresholds.  deal_type and clause_text are carried by the
\* deal but held at one value each; neither is read by the rules or routing.
DealInputs ==
    [deal_type : {"New"},
     customer_segment : CustomerSegment,
     annual_contract_value : ValuesAround(ThresholdsInUse("acv_exec_threshold")),
     discount_percentage : ValuesAround(ThresholdsInUse("discount_threshold")),
     payment_terms_days : ValuesAround(ThresholdsInUse("payment_terms_limit")),
     region : Region,
     custom_security_clause : BOOLEAN,
     clause_text : {"None"}]

\* ValidatedDeal.from_input: the input's fields under a fresh identity
from_input(deal_input, identity) ==
    [id |-> identity.id,
     created_at |-> identity.created_at,
     deal_type |-> deal_input.deal_type,
     customer_segment |-> deal_input.customer_segment,
     annual_contract_value |-> deal_input.annual_contract_value,
     discount_percentage |-> deal_input.discount_percentage,
     payment_terms_days |-> deal_input.payment_terms_days,
     region |-> deal_input.region,
     custom_security_clause |-> deal_input.custom_security_clause,
     clause_text |-> deal_input.clause_text]

\* owners of hand-built triggers: one team of the default order, two outside
SyntheticOwners == {"Finance", "Compliance", "Audit"}

SyntheticTriggers ==
    { RuleTrigger("CUSTOM_RULE", b, o, <<"test">>, IF b THEN 1 ELSE 0) :
        b \in BOOLEAN, o \in SyntheticOwners }

\* EvaluationResults built by hand, as the routing tests do
SyntheticEvaluations ==
    { EvaluationResult(0, ts, sum_weights(ts), "P2") :
        ts \in UNION { [1..n -> SyntheticTriggers] : n \in 0..MaxSynthetic } }

(***************************************************************************)
(* app/db/database.py: the deals and overrides tables as sequences of rows *)
(* in insertion order.  A nullable column holds <<>> (NULL) or <<value>>.  *)
(***************************************************************************)
None == <<>>

Some(v) == <<v>>

\* int(deal.custom_security_clause) on insert, bool(...) on read
int_of_bool(b) == IF b THEN 1 ELSE 0

bool_of_int(n) == n # 0

\* insert_deal: the new row, status 'validated', the JSON columns NULL
insert_deal(deals, d) ==
    Append(deals,
        [id |-> d.id, created_at |-> d.created_at,
         deal_type |-> d.deal_type, customer_segment |-> d.customer_segment,
         annual_contract_value |-> d.annual_contract_value,
         discount_percentage |-> d.discount_percentage,
         payment_terms_days |-> d.payment_terms_days, region |-> d.region,
         custom_security_clause |-> int_of_bool(d.custom_security_clause),
         clause_text |-> d.clause_text,
         decision_json |-> None, evaluation_json |-> None,
         advisory_json |-> None, status |-> "validated"])

\* update_deal_decision: UPDATE deals SET ... WHERE id = deal_id
update_deal_decision(deals, deal_id, ev, dec, advisory) ==
    [i \in 1..Len(deals) |->
        IF deals[i].id = deal_id
        THEN [deals[i] EXCEPT !.evaluation_json = Some(ev),
                              !.decision_json = Some(dec),
                              !.advisory_json = advisory,
                              !.status = "processed"]
        ELSE deals[i]]

\* _row_to_deal_dict
row_to_deal_dict(row) ==
    [row EXCEPT !.custom_security_clause =
                    bool_of_int(row.custom_security_clause)]

\* row placed behind every row whose created_at is not smaller
RECURSIVE insert_by_created_at_desc(_, _)
insert_by_created_at_desc(row, rows) ==
    IF rows = <<>> THEN <<row>>
    ELSE IF Head(rows).created_at >= row.created_at
         THEN <<Head(rows)>> \o insert_by_created_at_desc(row, Tail(rows))
         ELSE <<row>> \o rows

\* ORDER BY created_at DESC
RECURSIVE order_by_created_at_desc(_, _)
order_by_created_at_desc(rows, acc) ==
    IF rows = <<>> THEN acc
    ELSE order_by_created_at_desc(Tail(rows),
             insert_by_created_at_desc(Head(rows), acc))

\* get_deal: the row of that id as a dict, None when there is none
get_deal(deals, deal_id) ==
    LET found == SelectSeq(deals, LAMBDA row : row.id = deal_id)
    IN  IF found = <<>> THEN None ELSE Some(row_to_deal_dict(found[1]))

\* get_processed_deals: SELECT * FROM deals WHERE status = 'processed'
\* ORDER BY created_at DESC
get_processed_deals_with_decision(deals) ==
    LET rows == SelectSeq(deals, LAMBDA row : row.decision_json # None)
        ordered == order_by_created_at_desc(rows, <<>>)
    IN  [i \in 1..Len(ordered) |-> row_to_deal_dict(ordered[i])]

get_processed_deals(deals) ==
    LET rows == SelectSeq(deals, LAMBDA row : row.status = "processed")
        ordered == order_by_created_at_desc(rows, <<>>)
    IN  [i \in 1..Len(ordered) |-> row_to_deal_dict(ordered[i])]

\* insert_override: a new overrides row and the deal's status set to
\* 'overridden'; db holds both tables, ret is the new row's id
insert_override_keeping_status(db, deal_id, override_reason, original_decision_json, now) ==
    LET rowid == Len(db.overrides) + 1
    IN  [ret |-> rowid,
         db |-> [overrides |->
                    Append(db.overrides,
                        [id |-> rowid, deal_id |-> deal_id,
                         override_reason |-> override_reason,
                         override_notes |-> None,
                         overridden_by |-> "approver", created_at |-> now,
                         original_decision_json |-> original_decision_json]),
                 deals |-> db.deals]]

insert_override(db, deal_id, override_reason, original_decision_json, now) ==
    LET rowid == Len(db.overrides) + 1
    IN  [ret |-> rowid,
         db |-> [overrides |->
                    Append(db.overrides,
                        [id |-> rowid, deal_id |-> deal_id,
                         override_reason |-> override_reason,
                         override_notes |-> None,
                         overridden_by |-> "approver", created_at |-> now,
                         original_decision_json |-> original_decision_json]),
                 deals |->
                    [i \in 1..Len(db.deals) |->
                        IF db.deals[i].id = deal_id
                        THEN [db.deals[i] EXCEPT !.status = "overridden"]
                        ELSE db.deals[i]]]]

\* reset_db: DELETE FROM overrides, DELETE FROM deals
reset_db(db) == [db EXCEPT !.overrides = <<>>, !.deals = <<>>]

(***************************************************************************)
(* app/metrics/simulation.py                                               *)
(***************************************************************************)
\* an Optional field holds None or Some(value)
SimulationInput(defaults, segment_overrides, rule_weights, escalation_order, disabled_rules) ==
    [defaults |-> defaults, segment_overrides |-> segment_overrides,
     rule_weights |-> rule_weights, escalation_order |-> escalation_order,
     disabled_rules |-> disabled_rules]

\* RulesConfig.model_dump(): nested dicts; every ThresholdConfig dumps all
\* four fields
rules_config_dump(cfg) ==
    [defaults |-> model_dump(cfg.defaults),
     segment_overrides |->
        [seg \in DOMAIN cfg.segment_overrides |->
            model_dump(cfg.segment_overrides[seg])],
     escalation_order |-> cfg.escalation_order,
     rule_weights |-> cfg.rule_weights,
     priority_cutoffs |-> cfg.priority_cutoffs]

\* RulesConfig(**data): every ThresholdConfig is built from its dict, the
\* keys of the dict being the fields it sets
rules_config_validate(data) ==
    RulesConfig(ThresholdConfig(data.defaults),
                [seg \in DOMAIN data.segment_overrides |->
                    ThresholdConfig(data.segment_overrides[seg])],
                data.escalation_order, data.rule_weights,
                data.priority_cutoffs)

\* the "Build simulated config" block of run_simulation; a ThresholdConfig
\* object is truthy, so `if sim_input.defaults:` tests for None
build_sim_config(original_config, sim_input) ==
    LET data0 == rules_config_dump(original_config)
        data1 ==
            IF sim_input.defaults # None
            THEN [data0 EXCEPT !.defaults = model_dump(sim_input.defaults[1])]
            ELSE data0
        data2 ==
            IF sim_input.segment_overrides # None
            THEN [data1 EXCEPT !.segment_overrides =
                    [seg \in DOMAIN sim_input.segment_overrides[1] |->
                        model_dump(sim_input.segment_overrides[1][seg])]]
            ELSE data1
        data3 ==
            IF sim_input.rule_weights # None
            THEN [data2 EXCEPT !.rule_weights = sim_input.rule_weights[1]]
            ELSE data2
        data4 ==
            IF sim_input.escalation_order # None
            THEN [data3 EXCEPT !.escalation_order =
                                    sim_input.escalation_order[1]]
            ELSE data3
    IN  rules_config_validate(data4)

\* "Zero out disabled rules": the triggers after the loop
zero_disabled(triggers, disabled_rules) ==
    [i \in 1..Len(triggers) |->
        IF triggers[i].rule_id \in Range(disabled_rules)
        THEN [triggers[i] EXCEPT !.triggered = FALSE, !.weight = 0]
        ELSE triggers[i]]

\* lines 70-81 of the loop of _compute_sim_metrics: the evaluation as
\* evaluate_deal returned it (evaluated), the evaluation after the disabled
\* rules are zeroed and total and priority recomputed, and its routing
\* decision
rescore_and_route(ev0, cfg, disabled_rules) ==
    LET triggers == zero_disabled(ev0.triggers, disabled_rules)
        ev1 == [ev0 EXCEPT !.triggers = triggers,
                           !.total_weight = sum_weights(triggers),
                           !.priority =
                                compute_priority(sum_weights(triggers), cfg)]
    IN  [evaluated |-> ev0, evaluation |-> ev1,
         decision |-> route_deal(ev1, cfg).ret]

\* the body of the loop of _compute_sim_metrics up to route_deal, for one
\* stored deal reconstructed under a fresh identity
sim_deal(deal_row, cfg, disabled_rules, identity) ==
    rescore_and_route(
        evaluate_deal(
            from_input(
                [deal_type |-> deal_row.deal_type,
                 customer_segment |-> deal_row.customer_segment,
                 annual_contract_value |-> deal_row.annual_contract_value,
                 discount_percentage |-> deal_row.discount_percentage,
                 payment_terms_days |-> deal_row.payment_terms_days,
                 region |-> deal_row.region,
                 custom_security_clause |-> deal_row.custom_security_clause,
                 clause_text |-> deal_row.clause_text],
                identity),
            cfg).ret,
        cfg, disabled_rules)

\* Counter: <<key, count>> pairs in the order of first insertion
counter_add(counter, key) ==
    IF \E i \in 1..Len(counter) : counter[i][1] = key
    THEN [i \in 1..Len(counter) |->
            IF counter[i][1] = key
            THEN <<key, counter[i][2] + 1>> ELSE counter[i]]
    ELSE Append(counter, <<key, 1>>)

RECURSIVE counter_add_all(_, _)
counter_add_all(counter, keys) ==
    IF keys = <<>> THEN counter
    ELSE counter_add_all(counter_add(counter, Head(keys)), Tail(keys))

\* pair placed behind every pair whose count is not smaller
RECURSIVE insert_by_count_desc(_, _)
insert_by_count_desc(pair, pairs) ==
    IF pairs = <<>> THEN <<pair>>
    ELSE IF Head(pairs)[2] >= pair[2]
         THEN <<Head(pairs)>> \o insert_by_count_desc(pair, Tail(pairs))
         ELSE <<pair>> \o pairs

\* Counter.most_common(): by count descending, ties in insertion order
RECURSIVE most_common(_, _)
most_common(counter, acc) ==
    IF counter = <<>> THEN acc
    ELSE most_common(Tail(counter), insert_by_count_desc(Head(counter), acc))

\* dict(counter.most_common())
dict_of_counter(pairs) ==
    [key \in {pairs[i][1] : i \in 1..Len(pairs)} |->
        pairs[CHOOSE i \in 1..Len(pairs) : pairs[i][1] = key][2]]

RECURSIVE gcd(_, _)
gcd(a, b) == IF b = 0 THEN a ELSE gcd(b, a % b)

\* count / total if total > 0 else 0.0: the quotient as a fraction in lowest
\* terms (floats are modelled by the rationals they approximate)
rate(count, total) ==
    IF total > 0
    THEN [num |-> count \div gcd(count, total),
          den |-> total \div gcd(count, total)]
    ELSE [num |-> 0, den |-> 1]

\* round(x - y, 4), in ten-thousandths, ties to the even neighbour
round4_difference(x, y) ==
    LET num == (x.num * y.den - y.num * x.den) * 10000
        den == x.den * y.den
        q == num \div den
        r == num % den
    IN  IF 2 * r < den THEN q
        ELSE IF 2 * r > den THEN q + 1
        ELSE IF q % 2 = 0 THEN q ELSE q + 1

\* [{"rule_id": rule, "count": count} for rule, count in pairs]
rule_count_dicts(pairs) ==
    [i \in 1..Len(pairs) |-> [rule_id |-> pairs[i][1], count |-> pairs[i][2]]]

SimulationMetrics(total_deals, auto_approved, escalated, team_counter, rule_counter) ==
    [total_deals |-> total_deals,
     auto_approved |-> auto_approved,
     escalated |-> escalated,
     auto_approval_rate |-> rate(auto_approved, total_deals),
     escalation_rate |-> rate(escalated, total_deals),
     escalation_by_team |-> dict_of_counter(most_common(team_counter, <<>>)),
     top_rule_triggers |-> rule_count_dicts(most_common(rule_counter, <<>>))]

\* Variant of the counting that counts a fired trigger under the id of the
\* reconstructed deal instead of its rule id.
count_outcome_by_deal_id(counters, outcome) ==
    [auto_approved |->
        IF outcome.decision.auto_approved
        THEN counters.auto_approved + 1 ELSE counters.auto_approved,
     escalated |->
        IF outcome.decision.auto_approved
        THEN counters.escalated ELSE counters.escalated + 1,
     team_counter |->
        IF outcome.decision.auto_approved
        THEN counters.team_counter
        ELSE counter_add_all(counters.team_counter,
                             outcome.decision.escalation_path),
     rule_counter |->
        counter_add_all(counters.rule_counter,
            [i \in 1..Len(fired_triggers(outcome.evaluation.triggers)) |->
                outcome.evaluation.deal_id])]

\* lines 83-92 of the loop of _compute_sim_metrics: the counters after one
\* deal's outcome is counted
count_outcome_escalated_only(counters, outcome) ==
    [auto_approved |-> counters.auto_approved,
     escalated |->
        IF outcome.decision.auto_approved
        THEN counters.escalated ELSE counters.escalated + 1,
     team_counter |->
        IF outcome.decision.auto_approved
        THEN counters.team_counter
        ELSE counter_add_all(counters.team_counter,
                             outcome.decision.escalation_path),
     rule_counter |->
        counter_add_all(counters.rule_counter,
            [i \in 1..Len(fired_triggers(outcome.evaluation.triggers)) |->
                fired_triggers(outcome.evaluation.triggers)[i].rule_id])]

count_outcome_after_escalation(counters, outcome) ==
    [auto_approved |->
        IF outcome.decision.auto_approved /\ counters.escalated = 0
        THEN counters.auto_approved + 1 ELSE counters.auto_approved,
     escalated |->
        IF outcome.decision.auto_approved /\ counters.escalated = 0
        THEN counters.escalated ELSE counters.escalated + 1,
     team_counter |->
        IF outcome.decision.auto_approved
        THEN counters.team_counter
        ELSE counter_add_all(counters.team_counter,
                             outcome.decision.escalation_path),
     rule_counter |->
        counter_add_all(counters.rule_counter,
            [i \in 1..Len(fired_triggers(outcome.evaluation.triggers)) |->
                fired_triggers(outcome.evaluation.triggers)[i].rule_id])]

count_outcome(counters, outcome) ==
    [auto_approved |->
        IF outcome.decision.auto_approved
        THEN counters.auto_approved + 1 ELSE counters.auto_approved,
     escalated |->
        IF outcome.decision.auto_approved
        THEN counters.escalated ELSE counters.escalated + 1,
     team_counter |->
        IF outcome.decision.auto_approved
        THEN counters.team_counter
        ELSE counter_add_all(counters.team_counter,
                             outcome.decision.escalation_path),
     rule_counter |->
        counter_add_all(counters.rule_counter,
            [i \in 1..Len(fired_triggers(outcome.evaluation.triggers)) |->
                fired_triggers(outcome.evaluation.triggers)[i].rule_id])]

\* the loop of _compute_sim_metrics from the k-th deal on; counters holds
\* auto_approved, escalated, team_counter and rule_counter; the k-th
\* reconstructed deal gets the k-th of the run's fresh identities
RECURSIVE sim_loop(_, _, _, _, _, _)
sim_loop(deals, k, cfg, disabled_rules, clock, counters) ==
    IF k > Len(deals) THEN counters
    ELSE sim_loop(deals, k + 1, cfg, disabled_rules, clock,
             count_outcome(counters,
                 sim_deal(deals[k], cfg, disabled_rules,
                          [id |-> clock + k, created_at |-> clock + k])))

NoCounters ==
    [auto_approved |-> 0, escalated |-> 0, team_counter |-> <<>>,
     rule_counter |-> <<>>]

\* the return statement of _compute_sim_metrics
metrics_of_counters(total, c) ==
    SimulationMetrics(total, c.auto_approved, c.escalated, c.team_counter,
                      c.rule_counter)

\* _compute_sim_metrics, its counters starting from counters0 (the code
\* starts them empty)
compute_sim_metrics_from(deals, cfg, disabled_rules, clock, counters0) ==
    metrics_of_counters(Len(deals),
        sim_loop(deals, 1, cfg, disabled_rules, clock, counters0))

compute_sim_metrics(deals, cfg, disabled_rules, clock) ==
    compute_sim_metrics_from(deals, cfg, disabled_rules, clock, NoCounters)

\* Variant of the delta that lists only the teams of the simulated pass.
compute_delta_simulated_teams(original_metrics, simulated_metrics) ==
    [auto_approval_rate |->
        round4_difference(simulated_metrics.auto_approval_rate,
                          original_metrics.auto_approval_rate),
     escalation_rate |->
        round4_difference(simulated_metrics.escalation_rate,
                          original_metrics.escalation_rate),
     auto_approved |->
        simulated_metrics.auto_approved - original_metrics.auto_approved,
     escalated |-> simulated_metrics.escalated - original_metrics.escalated,
     escalation_by_team |->
        [team \in DOMAIN simulated_metrics.escalation_by_team |->
            dict_get(simulated_metrics.escalation_by_team, team, 0)
            - dict_get(original_metrics.escalation_by_team, team, 0)]]

\* the "Compute deltas" block of run_simulation
compute_delta(original_metrics, simulated_metrics) ==
    [auto_approval_rate |->
        round4_difference(simulated_metrics.auto_approval_rate,
                          original_metrics.auto_approval_rate),
     escalation_rate |->
        round4_difference(simulated_metrics.escalation_rate,
                          original_metrics.escalation_rate),
     auto_approved |->
        simulated_metrics.auto_approved - original_metrics.auto_approved,
     escalated |-> simulated_metrics.escalated - original_metrics.escalated,
     escalation_by_team |->
        LET all_teams == (DOMAIN original_metrics.escalation_by_team)
                            \cup (DOMAIN simulated_metrics.escalation_by_team)
        IN  [team \in all_teams |->
                dict_get(simulated_metrics.escalation_by_team, team, 0)
                - dict_get(original_metrics.escalation_by_team, team, 0)]]

SimulationResult(original, simulated, delta) ==
    [original |-> original, simulated |-> simulated, delta |-> delta]

\* the return statement of run_simulation
simulation_result(original_metrics, simulated_metrics) ==
    SimulationResult(original_metrics, simulated_metrics,
                     compute_delta(original_metrics, simulated_metrics))

\* the run from the loaded deals and the two configs on
simulate_deals(deals, original_config, sim_config, disabled_rules, clock) ==
    simulation_result(
        compute_sim_metrics(deals, original_config, <<>>, clock),
        compute_sim_metrics(deals, sim_config, disabled_rules,
                            clock + Len(deals)))

\* a row with the simulated outcome written into its JSON columns
simulated_row(row, outcome) ==
    [row EXCEPT !.evaluation_json = Some(outcome.evaluation),
                !.decision_json = Some(outcome.decision)]

\* the evaluation and decision of each deal in the simulated pass
simulated_outcomes(deals, sim_config, disabled_rules, clock) ==
    [k \in 1..Len(deals) |->
        sim_deal(deals[k], sim_config, disabled_rules,
                 [id |-> clock + k, created_at |-> clock + k])]

\* the locals of run_simulation after the simulated pass
simulation_locals(deals, sim_config, disabled_rules, clock) ==
    [sim_config |-> sim_config,
     outcomes |-> simulated_outcomes(deals, sim_config, disabled_rules,
                                     clock + Len(deals))]

\* Variant of run_simulation that stores each simulated decision back into
\* the deal's row.
run_simulation_persisting(sim_input, db, loaded_config, clock) ==
    [ret |-> simulate_deals(get_processed_deals(db.deals), loaded_config,
                build_sim_config(loaded_config, sim_input),
                sim_input.disabled_rules, clock),
     locals |-> simulation_locals(get_processed_deals(db.deals),
                    build_sim_config(loaded_config, sim_input),
                    sim_input.disabled_rules, clock),
     db |-> [db EXCEPT !.deals =
                [i \in 1..Len(db.deals) |->
                    IF db.deals[i].status = "processed"
                    THEN simulated_row(db.deals[i],
                            sim_deal(row_to_deal_dict(db.deals[i]),
                                build_sim_config(loaded_config, sim_input),
                                sim_input.disabled_rules,
                                [id |-> db.deals[i].id,
                                 created_at |-> db.deals[i].created_at]))
                    ELSE db.deals[i]]]]

\* run_simulation: ret is the SimulationResult, locals the function's
\* locals at its return, db the two tables after the call; clock is the
\* last identity handed out before the call
run_simulation(sim_input, db, loaded_config, clock) ==
    [ret |-> simulate_deals(get_processed_deals(db.deals), loaded_config,
                build_sim_config(loaded_config, sim_input),
                sim_input.disabled_rules, clock),
     locals |-> simulation_locals(get_processed_deals(db.deals),
                    build_sim_config(loaded_config, sim_input),
                    sim_input.disabled_rules, clock),
     db |-> db]

(***************************************************************************)
(* app/metrics/compute.py                                                  *)
(***************************************************************************)
\* get_all_deals: SELECT * FROM deals ORDER BY created_at DESC
get_all_deals(deals) ==
    [i \in 1..Len(deals) |->
        row_to_deal_dict(order_by_created_at_desc(deals, <<>>)[i])]

\* get_overrides: SELECT * FROM overrides ORDER BY created_at DESC
get_overrides(overrides) == order_by_created_at_desc(overrides, <<>>)

\* the rule ids of the triggers of a stored decision with triggered = true
triggered_rule_ids(rule_triggers) ==
    [i \in 1..Len(fired_triggers(rule_triggers)) |->
        fired_triggers(rule_triggers)[i].rule_id]

\* the body of the loop over the deals: a deal without a stored decision is
\* skipped, else it is counted as auto-approved or as escalated
count_decision_as_escalated(counters, decision_json) ==
    IF decision_json = None
    THEN [counters EXCEPT !.escalated = @ + 1]
    ELSE [auto_approved |->
            IF decision_json[1].auto_approved
            THEN counters.auto_approved + 1 ELSE counters.auto_approved,
          escalated |->
            IF decision_json[1].auto_approved
            THEN counters.escalated ELSE counters.escalated + 1,
          team_counter |->
            IF decision_json[1].auto_approved
            THEN counters.team_counter
            ELSE counter_add_all(counters.team_counter,
                                 decision_json[1].escalation_path),
          rule_counter |->
            counter_add_all(counters.rule_counter,
                triggered_rule_ids(decision_json[1].rule_triggers))]

count_decision(counters, decision_json) ==
    IF decision_json = None
    THEN counters
    ELSE [auto_approved |->
            IF decision_json[1].auto_approved
            THEN counters.auto_approved + 1 ELSE counters.auto_approved,
          escalated |->
            IF decision_json[1].auto_approved
            THEN counters.escalated ELSE counters.escalated + 1,
          team_counter |->
            IF decision_json[1].auto_approved
            THEN counters.team_counter
            ELSE counter_add_all(counters.team_counter,
                                 decision_json[1].escalation_path),
          rule_counter |->
            counter_add_all(counters.rule_counter,
                triggered_rule_ids(decision_json[1].rule_triggers))]

\* the loop over the deals from the k-th on
RECURSIVE metrics_loop(_, _, _)
metrics_loop(deals, k, counters) ==
    IF k > Len(deals) THEN counters
    ELSE metrics_loop(deals, k + 1,
                      count_decision(counters, deals[k].decision_json))

\* the loop over the overrides from the k-th on: reasons and the teams of
\* the original decisions
RECURSIVE override_loop(_, _, _)
override_loop(overrides, k, counters) ==
    IF k > Len(overrides) THEN counters
    ELSE override_loop(overrides, k + 1,
            [reason_counter |->
                counter_add(counters.reason_counter,
                            overrides[k].override_reason),
             override_team_counter |->
                counter_add_all(counters.override_team_counter,
                    overrides[k].original_decision_json.escalation_path)])

MetricsSummary(total, c, overridden, oc) ==
    [total_deals |-> total,
     auto_approved |-> c.auto_approved,
     escalated |-> c.escalated,
     overridden |-> overridden,
     auto_approval_rate |->
        rate(c.auto_approved, c.auto_approved + c.escalated),
     escalation_rate |-> rate(c.escalated, c.auto_approved + c.escalated),
     override_rate |-> rate(overridden, c.auto_approved + c.escalated),
     escalation_by_team |-> dict_of_counter(most_common(c.team_counter, <<>>)),
     top_rule_triggers |->
        rule_count_dicts(most_common(c.rule_counter, <<>>)),
     override_by_reason |->
        dict_of_counter(most_common(oc.reason_counter, <<>>)),
     override_by_team |->
        dict_of_counter(most_common(oc.override_team_counter, <<>>))]

\* compute_metrics over the two tables
compute_metrics(db) ==
    MetricsSummary(Len(db.deals),
        metrics_loop(get_all_deals(db.deals), 1, NoCounters),
        Len(db.overrides),
        override_loop(get_overrides(db.overrides), 1,
            [reason_counter |-> <<>>, override_team_counter |-> <<>>]))

(***************************************************************************)
(* app/advisory/models.py, app/advisory/client.py                          *)
(* A confidence is held in hundredths (0.87 is 87).  The result of a call  *)
(* that may raise is [ok, exception, value]: value holds the returned      *)
(* object, exception the name of the raised type.                          *)
(***************************************************************************)
RiskLevel == {"Low", "Medium", "High"}

ClauseCategory == {"Audit", "Data Residency", "IP", "Other"}

ClauseAdvisory(summary, risk_level, categories, confidence, review_required, raw_clause, model_used, error) ==
    [summary |-> summary, risk_level |-> risk_level,
     categories |-> categories, confidence |-> confidence,
     review_required |-> review_required, raw_clause |-> raw_clause,
     model_used |-> model_used, error |-> error]

\* attempts of one live call: 1 initial + 2 retries
MAX_RETRIES == 3

DEFAULT_MODEL == "claude-sonnet-4-20250514"

\* confidence below which an advisory is flagged for review (0.75)
ReviewConfidence == 75

MOCK_RESPONSE ==
    [summary |-> "This clause requires annual third-party security audits and data residency within the EU.",
     risk_level |-> "Medium",
     categories |-> <<"Audit", "Data Residency">>,
     confidence |-> 87]

Returned(v) == [ok |-> TRUE, exception |-> "", value |-> Some(v)]

Raised(exception) == [ok |-> FALSE, exception |-> exception, value |-> None]

\* _mock_analyze
mock_analyze(clause_text) ==
    ClauseAdvisory(MOCK_RESPONSE.summary, MOCK_RESPONSE.risk_level,
                   MOCK_RESPONSE.categories, MOCK_RESPONSE.confidence,
                   MOCK_RESPONSE.confidence < ReviewConfidence,
                   clause_text, "mock", None)

\* ClauseAdvisory(...) in _parse_advisory: the enum conversions, then the
\* field constraints (categories min_length=1, 0 <= confidence <= 1)
validate_advisory(data, clause_text, model) ==
    IF data.risk_level \notin RiskLevel THEN Raised("ValueError")
    ELSE IF \E i \in 1..Len(data.categories) :
                data.categories[i] \notin ClauseCategory
    THEN Raised("ValueError")
    ELSE IF Len(data.categories) < 1 \/ data.confidence \notin 0..100
    THEN Raised("ValidationError")
    ELSE Returned(ClauseAdvisory(data.summary, data.risk_level,
                                 data.categories, data.confidence,
                                 data.confidence < ReviewConfidence,
                                 clause_text, model, None))

\* _parse_advisory: json.loads of the text (a text that is no JSON holds no
\* document), the four keys read, the advisory validated
parse_advisory(raw, clause_text, model) ==
    IF raw = None THEN Raised("JSONDecodeError")
    ELSE IF {"confidence", "summary", "risk_level", "categories"}
                \ DOMAIN raw[1] # {}
    THEN Raised("KeyError")
    ELSE validate_advisory(raw[1], clause_text, model)

\* last_error of a failed attempt: f"Attempt {attempt + 1}/{MAX_RETRIES}:
\* {type(exc).__name__}: {exc}"
AttemptError(number, exception) ==
    [attempt |-> number, of |-> MAX_RETRIES, exception |-> exception]

\* last_error = "" before the first attempt
NoAttemptError == AttemptError(0, "")

\* the advisory returned once the retries are exhausted (the dash of the
\* summary written in ASCII)
fallback_advisory(clause_text, model, last_error) ==
    ClauseAdvisory("Unable to analyze clause - flagged for manual review.",
                   "Medium", <<"Other">>, 0, TRUE, clause_text, model,
                   Some(last_error))

\* the try block of one attempt: client.messages.create answers with the
\* scripted reply (an exhausted script raises StopIteration), and the text
\* of a reply is parsed
attempt_outcome(script, attempt, clause_text, model) ==
    IF attempt + 1 > Len(script) THEN Raised("StopIteration")
    ELSE IF ~script[attempt + 1].ok THEN script[attempt + 1]
    ELSE parse_advisory(script[attempt + 1].value[1], clause_text, model)

RECURSIVE live_loop(_, _, _, _, _)
RECURSIVE after_attempt(_, _, _, _, _)
\* the loop `for attempt in range(MAX_RETRIES)` of _live_analyze from
\* `attempt` on, then the fallback; call_count counts the calls of
\* client.messages.create
live_loop_one_more(clause_text, model, script, attempt, last_error) ==
    IF attempt >= MAX_RETRIES + 1
    THEN [ret |-> fallback_advisory(clause_text, model, last_error),
          call_count |-> attempt]
    ELSE after_attempt(attempt_outcome(script, attempt, clause_text, model),
                       clause_text, model, script, attempt)

live_loop(clause_text, model, script, attempt, last_error) ==
    IF attempt >= MAX_RETRIES
    THEN [ret |-> fallback_advisory(clause_text, model, last_error),
          call_count |-> attempt]
    ELSE after_attempt(attempt_outcome(script, attempt, clause_text, model),
                       clause_text, model, script, attempt)

\* the end of one attempt: return on a parsed advisory; both except clauses
\* record the error and continue
after_attempt(outcome, clause_text, model, script, attempt) ==
    IF outcome.ok
    THEN [ret |-> outcome.value[1], call_count |-> attempt + 1]
    ELSE live_loop(clause_text, model, script, attempt + 1,
                   AttemptError(attempt + 1, outcome.exception))

\* a call that returned `looped.ret` after `looped.call_count` requests
advisory_returned(looped) ==
    [raised |-> FALSE, ret |-> Some(looped.ret),
     call_count |-> looped.call_count]

\* a call that raised after `call_count` requests
advisory_raised(call_count) ==
    [raised |-> TRUE, ret |-> None, call_count |-> call_count]

\* _live_analyze: RuntimeError without ANTHROPIC_API_KEY; the client is
\* constructed outside the try block, so its error is raised too; else the
\* attempts
live_analyze_raising_exhausted(clause_text, env, script) ==
    IF ~env.api_key \/ env.client_error
    THEN advisory_raised(0)
    ELSE IF live_loop(clause_text, DEFAULT_MODEL, script, 0,
                      NoAttemptError).ret.error # None
    THEN advisory_raised(MAX_RETRIES)
    ELSE advisory_returned(live_loop(clause_text, DEFAULT_MODEL, script, 0,
                                     NoAttemptError))

live_analyze(clause_text, env, script) ==
    IF ~env.api_key \/ env.client_error
    THEN advisory_raised(0)
    ELSE advisory_returned(live_loop(clause_text, DEFAULT_MODEL, script, 0,
                                     NoAttemptError))

\* analyze_clause: live when ADVISORY_MODE is "live", else the mock
analyze_clause(clause_text, env, script) ==
    IF env.mode = "live" THEN live_analyze(clause_text, env, script)
    ELSE advisory_returned([ret |-> mock_analyze(clause_text),
                            call_count |-> 0])

(***************************************************************************)
(* app/api/routes_pipeline.py, app/api/routes_override.py                  *)
(***************************************************************************)
PipelineResult(d, dec, advisory) ==
    [deal |-> d, decision |-> dec, advisory |-> advisory]

\* process_deal from "Persist to database" on: ret is the PipelineResult,
\* db the two tables after the call
persist_and_return(validated, ev, dec, advisory, db) ==
    LET inserted == insert_deal(db.deals, validated)
        updated == update_deal_decision(inserted, validated.id, ev, dec,
                                        advisory)
    IN  [ret |-> PipelineResult(validated, dec, advisory),
         db |-> [db EXCEPT !.deals = updated]]

\* process_deal from route_deal on
route_and_persist(validated, ev, loaded_config, advisory, db) ==
    persist_and_return(validated, ev, route_deal(ev, loaded_config).ret,
                       advisory, db)

\* process_deal from evaluate_deal on
evaluate_and_persist(validated, loaded_config, advisory, db) ==
    route_and_persist(validated, evaluate_deal(validated, loaded_config).ret,
                      loaded_config, advisory, db)

\* process_deal for a submission without clause_text: no advisory call
process_deal_no_clause(deal_input, identity, loaded_config, db) ==
    evaluate_and_persist(from_input(deal_input, identity), loaded_config,
                         None, db)

\* process_deal after the advisory call: a raised error ends the request
\* with status 500 before anything is persisted
process_deal_escalating_review(validated, loaded_config, analyzed, db) ==
    IF analyzed.raised
    THEN [status_code |-> 500, ret |-> None, db |-> db]
    ELSE [status_code |-> 201,
          ret |-> Some(evaluate_and_persist(
                    [validated EXCEPT !.custom_security_clause =
                        @ \/ (analyzed.ret # None
                               /\ analyzed.ret[1].review_required)],
                    loaded_config, analyzed.ret, db).ret),
          db |-> evaluate_and_persist(
                    [validated EXCEPT !.custom_security_clause =
                        @ \/ (analyzed.ret # None
                               /\ analyzed.ret[1].review_required)],
                    loaded_config, analyzed.ret, db).db]

process_deal_analyzed(validated, loaded_config, analyzed, db) ==
    IF analyzed.raised
    THEN [status_code |-> 500, ret |-> None, db |-> db]
    ELSE [status_code |-> 201,
          ret |-> Some(evaluate_and_persist(validated, loaded_config,
                                            analyzed.ret, db).ret),
          db |-> evaluate_and_persist(validated, loaded_config,
                                      analyzed.ret, db).db]

\* process_deal: the advisory is asked for when clause_text is set
process_deal(deal_input, identity, loaded_config, db, env, script) ==
    IF deal_input.clause_text # "None"
    THEN process_deal_analyzed(
            from_input(deal_input, identity), loaded_config,
            analyze_clause(deal_input.clause_text, env, script), db)
    ELSE process_deal_analyzed(
            from_input(deal_input, identity), loaded_config,
            [raised |-> FALSE, ret |-> None, call_count |-> 0], db)

\* process_deal up to "Persist to database": the deal, its evaluation and
\* its decision, held by the request until update_deal_decision
routed_submission(validated, ev, loaded_config) ==
    [validated |-> validated, evaluation |-> ev,
     decision |-> route_deal(ev, loaded_config).ret]

pending_submission(validated, loaded_config) ==
    routed_submission(validated, evaluate_deal(validated, loaded_config).ret,
                      loaded_config)

\* override_deal: 404 without the deal, 400 for an unprocessed or an
\* auto-approved deal, else the override is recorded
override_deal_any_decision(db, deal_id, override_reason, now) ==
    LET found == get_deal(db.deals, deal_id)
    IN  IF found = None THEN [status_code |-> 404, db |-> db]
        ELSE IF found[1].decision_json = None
        THEN [status_code |-> 400, db |-> db]
        ELSE [status_code |-> 201,
              db |-> insert_override(db, deal_id, override_reason,
                                     found[1].decision_json[1], now).db]

override_deal(db, deal_id, override_reason, now) ==
    LET found == get_deal(db.deals, deal_id)
    IN  IF found = None THEN [status_code |-> 404, db |-> db]
        ELSE IF found[1].decision_json = None
        THEN [status_code |-> 400, db |-> db]
        ELSE IF found[1].decision_json[1].auto_approved
        THEN [status_code |-> 400, db |-> db]
        ELSE [status_code |-> 201,
              db |-> insert_override(db, deal_id, override_reason,
                                     found[1].decision_json[1], now).db]

(***************************************************************************)
(* app/intake/models.py: validation of DealInput and ValidatedDeal, the    *)
(* frozen model.  A clause_text of None is the string "None".              *)
(***************************************************************************)
\* texts for which v.strip() == ""
WhitespaceTexts == {"", " ", "   "}

\* the pydantic type validation both models share: the enum fields
enum_fields_valid(data) ==
    /\ data.deal_type \in DealType
    /\ data.customer_segment \in CustomerSegment
    /\ data.region \in Region

\* DealInput(**data): the enums, the Field constraints gt / ge / le, and the
\* clause_text validator
deal_input_validate(data) ==
    IF /\ enum_fields_valid(data)
       /\ data.annual_contract_value > 0
       /\ data.discount_percentage >= 0
       /\ data.discount_percentage <= 100
       /\ data.payment_terms_days > 0
       /\ ~(data.clause_text # "None" /\ data.clause_text \in WhitespaceTexts)
    THEN Returned(data)
    ELSE Raised("ValidationError")

\* ValidatedDeal(**data): the fields are declared without constraints, only
\* their types are validated
validated_deal_validate(data, identity) ==
    IF enum_fields_valid(data)
    THEN Returned(from_input(data, identity))
    ELSE Raised("ValidationError")

\* ValidatedDeal.from_input(DealInput(**data))
validated_from_raw(validated_input, identity) ==
    IF validated_input.ok
    THEN Returned(from_input(validated_input.value[1], identity))
    ELSE validated_input

\* d.field = value on the frozen model: ValidationError, d as it was
setattr_frozen(d, field, value) == [raised |-> TRUE, deal |-> d]

(***************************************************************************)
(* Inputs of the store and simulation model.                               *)
(***************************************************************************)
\* rows the deals table may hold
MaxDeals == 2
\* rows the overrides table may hold
MaxOverrides == 1

DealInput(segment, acv, discount, days, region, security) ==
    [deal_type |-> "New", customer_segment |-> segment,
     annual_contract_value |-> acv, discount_percentage |-> discount,
     payment_terms_days |-> days, region |-> region,
     custom_security_clause |-> security, clause_text |-> "None"]

\* submissions: one exceeding only the built-in discount threshold, one
\* with a contract value between the built-in and the raised threshold, one
\* exceeding discount and payment terms in the EU, one exceeding everything
SimDeals ==
    { DealInput("SMB", 100000, 25, 30, "NA", FALSE),
      DealInput("Enterprise", 180000, 10, 30, "NA", FALSE),
      DealInput("Enterprise", 100000, 22, 50, "EU", FALSE),
      DealInput("Mid-Market", 250000, 30, 90, "EU", TRUE) }

\* baseline documents: the built-in configuration; raised defaults with
\* overrides that set two fields each; a one-field override under another
\* escalation order and weights that leave rules out
SimConfigs ==
    { RulesConfig(BuiltinThresholds, <<>>, DefaultEscalationOrder,
                  DefaultRuleWeights,
                  PriorityCutoffs(DefaultP1, DefaultP2, DefaultP3)),
      RulesConfig(RaisedThresholds,
                  [seg \in {"Enterprise", "SMB"} |->
                      IF seg = "Enterprise"
                      THEN ThresholdConfig([discount_threshold |-> 20,
                                            eu_requires_legal |-> TRUE])
                      ELSE ThresholdConfig([acv_exec_threshold |-> 150000,
                                            payment_terms_limit |-> 45])],
                  DefaultEscalationOrder, DefaultRuleWeights,
                  PriorityCutoffs(DefaultP1, DefaultP2, DefaultP3)),
      RulesConfig(BuiltinThresholds,
                  [seg \in {"Enterprise"} |->
                      ThresholdConfig([discount_threshold |-> 25])],
                  <<"Exec", "Security", "Legal", "Finance">>,
                  PartialRuleWeights,
                  PriorityCutoffs(DefaultP1, DefaultP2, DefaultP3)) }

RaisedDiscountDefaults == ThresholdConfig([discount_threshold |-> 50])

LongerTermsOverride ==
    [seg \in {"Enterprise"} |-> ThresholdConfig([payment_terms_limit |-> 60])]

ThreeDisabledRules ==
    <<"DISCOUNT_THRESHOLD", "PAYMENT_TERMS_LIMIT", "EU_LEGAL_REVIEW">>

\* requests: no change; one rule disabled; new defaults; a new override for
\* one segment; both; new weights and order with three rules disabled; all
\* of these
SimInputs ==
    { SimulationInput(None, None, None, None, <<>>),
      SimulationInput(None, None, None, None, <<"DISCOUNT_THRESHOLD">>),
      SimulationInput(Some(RaisedDiscountDefaults), None, None, None, <<>>),
      SimulationInput(None, Some(LongerTermsOverride), None, None, <<>>),
      SimulationInput(Some(RaisedDiscountDefaults), Some(LongerTermsOverride),
                      None, None, <<>>),
      SimulationInput(None, None, Some(PartialRuleWeights),
                      Some(<<"Legal", "Exec">>), ThreeDisabledRules),
      SimulationInput(Some(RaisedDiscountDefaults), Some(LongerTermsOverride),
                      Some(PartialRuleWeights), Some(<<"Legal", "Exec">>),
                      ThreeDisabledRules) }

\* the last identity handed out before the first and before the second run
\* of a request: the deals a run reconstructs get identities no stored deal
\* and no earlier run has
SimClocks == <<100, 200>>

(***************************************************************************)
(* State machine: a caller holding one configuration validates a deal,     *)
(* evaluates it (twice), routes the evaluation (twice); or routes a        *)
(* hand-built evaluation.                                                  *)
(***************************************************************************)
NoDeal ==
    [id |-> 0, created_at |-> 0, deal_type |-> "", customer_segment |-> "",
     annual_contract_value |-> 0, discount_percentage |-> 0,
     payment_terms_days |-> 0, region |-> "", custom_security_clause |-> FALSE,
     clause_text |-> "None"]

NoEvaluation == EvaluationResult(0, <<>>, 0, "")

NoDecision == RoutingDecision(0, "", <<>>, <<>>, FALSE, "", 0)

NoThresholds ==
    [discount_threshold |-> 0, acv_exec_threshold |-> 0,
     payment_terms_limit |-> 0, eu_requires_legal |-> FALSE, fields_set |-> {}]

NoSimulationInput == SimulationInput(None, None, None, None, <<>>)

NoSimulationResult == [original |-> <<>>, simulated |-> <<>>, delta |-> <<>>]

\* ADVISORY_MODE unset ("mock"), no API key
MockEnv == [mode |-> "mock", api_key |-> FALSE, client_error |-> FALSE]

\* no call of _live_analyze made
NoAdvisoryCall ==
    [clause_text |-> "None", script |-> <<>>, raised |-> FALSE,
     ret |-> None, call_count |-> 0]

\* no response received
NoResponse == [status_code |-> 0, ret |-> None]

\* no deal constructed or assigned to
NoIntakeCall == [op |-> "", raised |-> FALSE, before |-> NoDeal]

\* no override requested
NoOverrideResponse == [deal_id |-> 0, status_code |-> 0]

NoSimulationLocals == [sim_config |-> <<>>, outcomes |-> <<>>]

Init ==
    /\ config \in Configs
    /\ deal = NoDeal
    /\ evaluation = NoEvaluation
    /\ evaluation_again = NoEvaluation
    /\ decision = NoDecision
    /\ decision_again = NoDecision
    /\ local_thresholds = NoThresholds
    /\ pc = "idle"
    /\ deals_table = <<>>
    /\ overrides_table = <<>>
    /\ sim_request = NoSimulationInput
    /\ sim_result = NoSimulationResult
    /\ sim_result_again = NoSimulationResult
    /\ sim_locals = NoSimulationLocals
    /\ advisory_env = MockEnv
    /\ advisory_call = NoAdvisoryCall
    /\ response_plain = NoResponse
    /\ response_clause = NoResponse
    /\ intake_call = NoIntakeCall
    /\ in_flight = <<>>
    /\ override_response = NoOverrideResponse
    /\ metrics_result = None

\* a submission is validated into a deal
Intake ==
    /\ pc = "idle"
    /\ UNCHANGED sim_vars
    /\ UNCHANGED adv_vars
    /\ UNCHANGED api_vars
    /\ \E deal_input \in DealInputs, identity \in DealIdentities :
        /\ deal' = from_input(deal_input, identity)
        /\ evaluation' = NoEvaluation
        /\ evaluation_again' = NoEvaluation
        /\ decision' = NoDecision
        /\ decision_again' = NoDecision
        /\ local_thresholds' = NoThresholds
        /\ pc' = "validated"
        /\ UNCHANGED config

\* evaluation = evaluate_deal(deal, config)
Evaluate ==
    /\ pc = "validated"
    /\ LET call == evaluate_deal(deal, config)
       IN  /\ evaluation' = call.ret
           /\ local_thresholds' = call.thresholds
           /\ deal' = call.deal
           /\ config' = call.config
    /\ pc' = "evaluated"
    /\ UNCHANGED <<evaluation_again, decision, decision_again>>
    /\ UNCHANGED sim_vars
    /\ UNCHANGED adv_vars
    /\ UNCHANGED api_vars

\* a second evaluate_deal(deal, config) with the same arguments
EvaluateAgain ==
    /\ pc = "evaluated"
    /\ LET call == evaluate_deal(deal, config)
       IN  /\ evaluation_again' = call.ret
           /\ local_thresholds' = call.thresholds
           /\ deal' = call.deal
           /\ config' = call.config
    /\ pc' = "evaluated_again"
    /\ UNCHANGED <<evaluation, decision, decision_again>>
    /\ UNCHANGED sim_vars
    /\ UNCHANGED adv_vars
    /\ UNCHANGED api_vars

\* an EvaluationResult constructed directly
BuildSynthetic ==
    /\ pc = "idle"
    /\ UNCHANGED sim_vars
    /\ UNCHANGED adv_vars
    /\ UNCHANGED api_vars
    /\ \E ev \in SyntheticEvaluations :
        /\ evaluation' = ev
        /\ deal' = NoDeal
        /\ evaluation_again' = NoEvaluation
        /\ decision' = NoDecision
        /\ decision_again' = NoDecision
        /\ local_thresholds' = NoThresholds
        /\ pc' = "synthetic"
        /\ UNCHANGED config

\* decision = route_deal(evaluation, config)
Route ==
    /\ pc \in {"evaluated", "evaluated_again", "synthetic"}
    /\ LET call == route_deal(evaluation, config)
       IN  /\ decision' = call.ret
           /\ evaluation' = call.evaluation
           /\ config' = call.config
    /\ evaluation_again' = NoEvaluation
    /\ pc' = "routed"
    /\ UNCHANGED <<deal, decision_again, local_thresholds>>
    /\ UNCHANGED sim_vars
    /\ UNCHANGED adv_vars
    /\ UNCHANGED api_vars

\* a second route_deal(evaluation, config) with the same arguments
RouteAgain ==
    /\ pc = "routed"
    /\ LET call == route_deal(evaluation, config)
       IN  /\ decision_again' = call.ret
           /\ evaluation' = call.evaluation
           /\ config' = call.config
    /\ pc' = "routed_again"
    /\ UNCHANGED <<deal, evaluation_again, decision, local_thresholds>>
    /\ UNCHANGED sim_vars
    /\ UNCHANGED adv_vars
    /\ UNCHANGED api_vars

\* the caller drops its results and starts over
Finish ==
    /\ pc \in {"routed", "routed_again"}
    /\ deal' = NoDeal
    /\ evaluation' = NoEvaluation
    /\ evaluation_again' = NoEvaluation
    /\ decision' = NoDecision
    /\ decision_again' = NoDecision
    /\ local_thresholds' = NoThresholds
    /\ pc' = "idle"
    /\ UNCHANGED config
    /\ UNCHANGED sim_vars
    /\ UNCHANGED adv_vars
    /\ UNCHANGED api_vars

Next ==
    \/ Intake
    \/ Evaluate
    \/ EvaluateAgain
    \/ BuildSynthetic
    \/ Route
    \/ RouteAgain
    \/ Finish

Spec == Init /\ [][Next]_vars

(***************************************************************************)
(* Inputs of the advisory model.                                           *)
(***************************************************************************)
\* replies scripted for the API client of one call
ScriptLen == 4

AdvisoryEnvs ==
    {MockEnv,
     [mode |-> "live", api_key |-> TRUE, client_error |-> FALSE],
     [mode |-> "live", api_key |-> FALSE, client_error |-> FALSE],
     [mode |-> "live", api_key |-> TRUE, client_error |-> TRUE]}

ClauseTexts == {"Data must remain in EU.", "Vendor indemnifies all IP claims."}

\* replies of client.messages.create: a transport failure, a text that is
\* no JSON, a valid document of high and one of low confidence, a document
\* whose confidence is out of range
ApiReplies ==
    {Raised("Exception"),
     Returned(None),
     Returned(Some([summary |-> "OK.", risk_level |-> "Low",
                    categories |-> <<"Other">>, confidence |-> 80])),
     Returned(Some([summary |-> "Broad indemnity.", risk_level |-> "High",
                    categories |-> <<"IP">>, confidence |-> 60])),
     Returned(Some([summary |-> "OK.", risk_level |-> "Low",
                    categories |-> <<"Other">>, confidence |-> 150]))}

ApiScripts == [1..ScriptLen -> ApiReplies]

(***************************************************************************)
(* Inputs of the intake model: field values inside and outside the         *)
(* constraints.                                                            *)
(***************************************************************************)
RawDeals ==
    [deal_type : {"New", "Lease"},
     customer_segment : {"SMB", "Government"},
     annual_contract_value : {-5000, 0, 100000},
     discount_percentage : {-1, 0, 100, 101},
     payment_terms_days : {-10, 0, 30},
     region : {"NA", "Mars"},
     custom_security_clause : {FALSE},
     clause_text : {"None", "", "   ", "Data must remain in EU."}]

\* assignments tried on a constructed deal
FieldAssignments ==
    {<<"discount_percentage", 99>>, <<"annual_contract_value", -1>>,
     <<"clause_text", "">>}

(***************************************************************************)
(* Inputs of the concurrent store model.                                   *)
(***************************************************************************)
\* rows the deals table may hold in the concurrent store model
MaxStored == 2
\* rows its overrides table may hold
MaxOverrideRecords == 2

\* submissions: one no rule of any baseline fires for, one escalated to
\* several teams
StoreDeals ==
    { DealInput("SMB", 50000, 10, 30, "NA", FALSE),
      DealInput("Enterprise", 100000, 22, 50, "EU", FALSE) }

\* a deal id no row has
UnknownDealId == 99

\* the built-in configuration
StoreConfig ==
    RulesConfig(BuiltinThresholds, <<>>, DefaultEscalationOrder,
                DefaultRuleWeights,
                PriorityCutoffs(DefaultP1, DefaultP2, DefaultP3))

\* the simulation requests of the concurrent store model
StoreSimInputs ==
    { SimulationInput(None, None, None, None, <<>>),
      SimulationInput(None, None, None, None, <<"DISCOUNT_THRESHOLD">>) }

(***************************************************************************)
(* State machine of the store: deals are processed through the pipeline,   *)
(* escalated deals are overridden, and simulations are run (twice)         *)
(* against the stored deals.                                               *)
(***************************************************************************)
db_tables == [deals |-> deals_table, overrides |-> overrides_table]

\* uuid4() and now(): a value no row holds yet, later than every row's
next_identity ==
    [id |-> Len(deals_table) + Len(overrides_table) + 1,
     created_at |-> Len(deals_table) + Len(overrides_table) + 1]

SimInit ==
    /\ config \in SimConfigs
    /\ deal = NoDeal
    /\ evaluation = NoEvaluation
    /\ evaluation_again = NoEvaluation
    /\ decision = NoDecision
    /\ decision_again = NoDecision
    /\ local_thresholds = NoThresholds
    /\ pc = "serving"
    /\ deals_table = <<>>
    /\ overrides_table = <<>>
    /\ sim_request = NoSimulationInput
    /\ sim_result = NoSimulationResult
    /\ sim_result_again = NoSimulationResult
    /\ sim_locals = NoSimulationLocals
    /\ advisory_env = MockEnv
    /\ advisory_call = NoAdvisoryCall
    /\ response_plain = NoResponse
    /\ response_clause = NoResponse
    /\ intake_call = NoIntakeCall
    /\ in_flight = <<>>
    /\ override_response = NoOverrideResponse
    /\ metrics_result = None

\* POST /deals with a submission without clause_text
ProcessDeal ==
    /\ pc = "serving"
    /\ Len(deals_table) < MaxDeals
    /\ \E deal_input \in SimDeals :
        \E call \in {process_deal_no_clause(deal_input, next_identity,
                                            config, db_tables)} :
            /\ deals_table' = call.db.deals
            /\ overrides_table' = call.db.overrides
    /\ UNCHANGED <<config, pc, sim_request, sim_result, sim_result_again,
                   sim_locals>>
    /\ UNCHANGED core_vars
    /\ UNCHANGED adv_vars
    /\ UNCHANGED api_vars

\* POST /deals/{deal_id}/override
OverrideDeal ==
    /\ pc = "serving"
    /\ Len(overrides_table) < MaxOverrides
    /\ \E i \in 1..Len(deals_table) :
        \E call \in {override_deal(db_tables, deals_table[i].id,
                                   "One-time exception",
                                   next_identity.created_at)} :
            /\ call.status_code = 201
            /\ deals_table' = call.db.deals
            /\ overrides_table' = call.db.overrides
    /\ UNCHANGED <<config, pc, sim_request, sim_result, sim_result_again,
                   sim_locals>>
    /\ UNCHANGED core_vars
    /\ UNCHANGED adv_vars
    /\ UNCHANGED api_vars

\* POST /simulate
Simulate ==
    /\ pc = "serving"
    /\ \E sim_input \in SimInputs :
        \E call \in {run_simulation(sim_input, db_tables, config,
                                    SimClocks[1])} :
            /\ sim_request' = sim_input
            /\ sim_result' = call.ret
            /\ sim_locals' = call.locals
            /\ deals_table' = call.db.deals
            /\ overrides_table' = call.db.overrides
    /\ pc' = "simulated"
    /\ UNCHANGED <<config, sim_result_again>>
    /\ UNCHANGED core_vars
    /\ UNCHANGED adv_vars
    /\ UNCHANGED api_vars

\* POST /simulate with the same request again
SimulateAgain ==
    /\ pc = "simulated"
    /\ \E call \in {run_simulation(sim_request, db_tables, config,
                                   SimClocks[2])} :
        /\ sim_result_again' = call.ret
        /\ sim_locals' = call.locals
        /\ deals_table' = call.db.deals
        /\ overrides_table' = call.db.overrides
    /\ pc' = "simulated_again"
    /\ UNCHANGED <<config, sim_request, sim_result>>
    /\ UNCHANGED core_vars
    /\ UNCHANGED adv_vars
    /\ UNCHANGED api_vars

\* the responses are dropped
SimDone ==
    /\ pc \in {"simulated", "simulated_again"}
    /\ sim_request' = NoSimulationInput
    /\ sim_result' = NoSimulationResult
    /\ sim_result_again' = NoSimulationResult
    /\ sim_locals' = NoSimulationLocals
    /\ pc' = "serving"
    /\ UNCHANGED <<config, deals_table, overrides_table>>
    /\ UNCHANGED core_vars
    /\ UNCHANGED adv_vars
    /\ UNCHANGED api_vars

SimNext ==
    \/ ProcessDeal
    \/ OverrideDeal
    \/ Simulate
    \/ SimulateAgain
    \/ SimDone

SimSpec == SimInit /\ [][SimNext]_vars

(***************************************************************************)
(* State machine of the advisory: a deal is submitted to the pipeline      *)
(* without clause_text and then with one, and _live_analyze is called      *)
(* against a scripted API client.                                          *)
(***************************************************************************)
AdvInit ==
    /\ config \in SimConfigs
    /\ deal = NoDeal
    /\ evaluation = NoEvaluation
    /\ evaluation_again = NoEvaluation
    /\ decision = NoDecision
    /\ decision_again = NoDecision
    /\ local_thresholds = NoThresholds
    /\ pc = "serving"
    /\ deals_table = <<>>
    /\ overrides_table = <<>>
    /\ sim_request = NoSimulationInput
    /\ sim_result = NoSimulationResult
    /\ sim_result_again = NoSimulationResult
    /\ sim_locals = NoSimulationLocals
    /\ advisory_env \in AdvisoryEnvs
    /\ advisory_call = NoAdvisoryCall
    /\ response_plain = NoResponse
    /\ response_clause = NoResponse
    /\ intake_call = NoIntakeCall
    /\ in_flight = <<>>
    /\ override_response = NoOverrideResponse
    /\ metrics_result = None

\* POST /deals without clause_text
SubmitPlain ==
    /\ pc = "serving"
    /\ Len(deals_table) + 2 <= MaxDeals
    /\ \E deal_input \in SimDeals :
        \E call \in {process_deal(deal_input, next_identity, config,
                                  db_tables, advisory_env, <<>>)} :
            /\ response_plain' = [status_code |-> call.status_code,
                                  ret |-> call.ret]
            /\ deals_table' = call.db.deals
            /\ overrides_table' = call.db.overrides
    /\ pc' = "plain"
    /\ UNCHANGED <<config, sim_request, sim_result, sim_result_again,
                   sim_locals, advisory_env, advisory_call, response_clause>>
    /\ UNCHANGED core_vars
    /\ UNCHANGED api_vars

\* the submission of response_plain without its identity
submitted_input(d) ==
    [deal_type |-> d.deal_type, customer_segment |-> d.customer_segment,
     annual_contract_value |-> d.annual_contract_value,
     discount_percentage |-> d.discount_percentage,
     payment_terms_days |-> d.payment_terms_days, region |-> d.region,
     custom_security_clause |-> d.custom_security_clause,
     clause_text |-> d.clause_text]

\* POST /deals with the same fields and a clause_text
SubmitWithClause ==
    /\ pc = "plain"
    /\ \E clause_text \in ClauseTexts, script \in ApiScripts :
        \E call \in {process_deal(
                        [submitted_input(response_plain.ret[1].deal)
                            EXCEPT !.clause_text = clause_text],
                        next_identity, config, db_tables, advisory_env,
                        script)} :
            /\ response_clause' = [status_code |-> call.status_code,
                                   ret |-> call.ret]
            /\ deals_table' = call.db.deals
            /\ overrides_table' = call.db.overrides
    /\ pc' = "both"
    /\ UNCHANGED <<config, sim_request, sim_result, sim_result_again,
                   sim_locals, advisory_env, advisory_call, response_plain>>
    /\ UNCHANGED core_vars
    /\ UNCHANGED api_vars

\* _live_analyze(clause_text) against a client answering with the script
LiveAnalyze ==
    /\ pc = "serving"
    /\ advisory_env.mode = "live"
    /\ \E clause_text \in ClauseTexts, script \in ApiScripts :
        \E call \in {live_analyze(clause_text, advisory_env, script)} :
            advisory_call' = [clause_text |-> clause_text, script |-> script,
                              raised |-> call.raised, ret |-> call.ret,
                              call_count |-> call.call_count]
    /\ pc' = "analyzed"
    /\ UNCHANGED <<config, advisory_env, response_plain, response_clause>>
    /\ UNCHANGED core_vars
    /\ UNCHANGED api_vars
    /\ UNCHANGED sim_vars

\* the responses are dropped and the store is reset
AdvDone ==
    /\ pc \in {"both", "analyzed"}
    /\ advisory_call' = NoAdvisoryCall
    /\ response_plain' = NoResponse
    /\ response_clause' = NoResponse
    /\ \E db \in {reset_db(db_tables)} :
        /\ deals_table' = db.deals
        /\ overrides_table' = db.overrides
    /\ pc' = "serving"
    /\ UNCHANGED <<config, advisory_env, sim_request, sim_result,
                   sim_result_again, sim_locals>>
    /\ UNCHANGED core_vars
    /\ UNCHANGED api_vars

AdvNext ==
    \/ SubmitPlain
    \/ SubmitWithClause
    \/ LiveAnalyze
    \/ AdvDone

AdvisorySpec == AdvInit /\ [][AdvNext]_vars

(***************************************************************************)
(* State machine of the concurrent store: submissions persist a deal in    *)
(* two transactions (insert_deal, then update_deal_decision); between the  *)
(* two, other submissions, seeding, overrides, resets, simulations and     *)
(* metrics requests run.                                                   *)
(***************************************************************************)
StoreInit == SimInit /\ config = StoreConfig

\* the ids of the rows and of the submissions in flight
ids_in_use ==
    {deals_table[i].id : i \in 1..Len(deals_table)}
        \cup {in_flight[i].validated.id : i \in 1..Len(in_flight)}

\* uuid4(): an id no row and no submission in flight has; now(): a time
\* later than every row's of the deals table
fresh_identity ==
    [id |-> CHOOSE n \in 1..(Cardinality(ids_in_use) + 1) :
                /\ n \notin ids_in_use
                /\ \A m \in 1..(n - 1) : m \in ids_in_use,
     created_at |-> 1 + Len(deals_table)]

\* now() of an override: a time later than every row's of the overrides
\* table (the timestamps of the two tables are never compared)
override_time == 1 + Len(overrides_table)

\* process_deal (or seed_deals with auto_process) up to and including
\* insert_deal: the first transaction
StoreInsert ==
    /\ pc = "serving"
    /\ Len(deals_table) < MaxStored
    /\ Len(in_flight) < MaxStored
    /\ \E deal_input \in StoreDeals :
        \E call \in {pending_submission(
                        from_input(deal_input, fresh_identity), config)} :
            /\ deals_table' = insert_deal(deals_table, call.validated)
            /\ in_flight' = Append(in_flight, call)
    /\ UNCHANGED <<config, pc, overrides_table, sim_request, sim_result,
                   sim_result_again, sim_locals, intake_call,
                   override_response, metrics_result>>
    /\ UNCHANGED core_vars
    /\ UNCHANGED adv_vars

\* update_deal_decision of a submission in flight: the second transaction
StoreUpdate ==
    /\ pc = "serving"
    /\ \E i \in 1..Len(in_flight) :
        /\ deals_table' =
                update_deal_decision(deals_table, in_flight[i].validated.id,
                                     in_flight[i].evaluation,
                                     in_flight[i].decision, None)
        /\ in_flight' = [k \in 1..(Len(in_flight) - 1) |->
                            IF k < i THEN in_flight[k] ELSE in_flight[k + 1]]
    /\ UNCHANGED <<config, pc, overrides_table, sim_request, sim_result,
                   sim_result_again, sim_locals, intake_call,
                   override_response, metrics_result>>
    /\ UNCHANGED core_vars
    /\ UNCHANGED adv_vars

\* seed_deals(auto_process=False): the deal is inserted and left validated
SeedInsert ==
    /\ pc = "serving"
    /\ Len(deals_table) < MaxStored
    /\ \E deal_input \in StoreDeals :
        deals_table' =
            insert_deal(deals_table, from_input(deal_input, fresh_identity))
    /\ UNCHANGED <<config, pc, overrides_table, sim_request, sim_result,
                   sim_result_again, sim_locals>>
    /\ UNCHANGED core_vars
    /\ UNCHANGED adv_vars
    /\ UNCHANGED api_vars

\* reset_db(); the update_deal_decision of a submission in flight then
\* finds no row of its id and changes nothing, so it is dropped here
ResetDb ==
    /\ pc = "serving"
    /\ Len(deals_table) > 0
    /\ \E db \in {reset_db(db_tables)} :
        /\ deals_table' = db.deals
        /\ overrides_table' = db.overrides
    /\ in_flight' = <<>>
    /\ UNCHANGED <<config, pc, sim_request, sim_result, sim_result_again,
                   sim_locals, intake_call, override_response,
                   metrics_result>>
    /\ UNCHANGED core_vars
    /\ UNCHANGED adv_vars

\* POST /deals/{deal_id}/override for a stored or an unknown deal id
OverrideRequest ==
    /\ pc = "serving"
    /\ \E deal_id \in {deals_table[i].id : i \in 1..Len(deals_table)}
                        \cup {UnknownDealId} :
        \E call \in {override_deal(db_tables, deal_id, "One-time exception",
                                   override_time)} :
            /\ call.status_code = 201 =>
                    Len(overrides_table) < MaxOverrideRecords
            /\ deals_table' = call.db.deals
            /\ overrides_table' = call.db.overrides
            /\ override_response' = [deal_id |-> deal_id,
                                     status_code |-> call.status_code]
    /\ pc' = "responded"
    /\ UNCHANGED <<config, sim_request, sim_result, sim_result_again,
                   sim_locals, intake_call, in_flight, metrics_result>>
    /\ UNCHANGED core_vars
    /\ UNCHANGED adv_vars

\* POST /simulate
StoreSimulate ==
    /\ pc = "serving"
    /\ \E sim_input \in StoreSimInputs :
        \E call \in {run_simulation(sim_input, db_tables, config,
                                    SimClocks[1])} :
            /\ sim_request' = sim_input
            /\ sim_result' = call.ret
            /\ sim_locals' = call.locals
            /\ deals_table' = call.db.deals
            /\ overrides_table' = call.db.overrides
    /\ pc' = "responded"
    /\ UNCHANGED <<config, sim_result_again>>
    /\ UNCHANGED core_vars
    /\ UNCHANGED adv_vars
    /\ UNCHANGED api_vars

\* GET /metrics
StoreMetrics ==
    /\ pc = "serving"
    /\ metrics_result' = Some(compute_metrics(db_tables))
    /\ pc' = "responded"
    /\ UNCHANGED <<config, deals_table, overrides_table, sim_request,
                   sim_result, sim_result_again, sim_locals, intake_call,
                   in_flight, override_response>>
    /\ UNCHANGED core_vars
    /\ UNCHANGED adv_vars

\* the response is dropped
StoreDone ==
    /\ pc = "responded"
    /\ sim_request' = NoSimulationInput
    /\ sim_result' = NoSimulationResult
    /\ sim_locals' = NoSimulationLocals
    /\ override_response' = NoOverrideResponse
    /\ metrics_result' = None
    /\ pc' = "serving"
    /\ UNCHANGED <<config, deals_table, overrides_table, sim_result_again,
                   intake_call, in_flight>>
    /\ UNCHANGED core_vars
    /\ UNCHANGED adv_vars

StoreNext ==
    \/ StoreInsert
    \/ StoreUpdate
    \/ SeedInsert
    \/ ResetDb
    \/ OverrideRequest
    \/ StoreSimulate
    \/ StoreMetrics
    \/ StoreDone

StoreSpec == StoreInit /\ [][StoreNext]_vars

(***************************************************************************)
(* State machine of the intake: a deal is constructed from raw fields,     *)
(* through DealInput and from_input or directly, and then assigned to.     *)
(***************************************************************************)
IntakeInit == Init

\* validated = ValidatedDeal.from_input(DealInput(**data))
BuildFromInput ==
    /\ pc = "idle"
    /\ \E data \in RawDeals :
        \E call \in {validated_from_raw(deal_input_validate(data),
                                        [id |-> 1, created_at |-> 1])} :
            /\ deal' = IF call.ok THEN call.value[1] ELSE NoDeal
            /\ intake_call' = [op |-> "from_input", raised |-> ~call.ok,
                               before |-> NoDeal]
    /\ pc' = "built"
    /\ UNCHANGED <<config, evaluation, evaluation_again, decision,
                   decision_again, local_thresholds, in_flight,
                   override_response, metrics_result>>
    /\ UNCHANGED sim_vars
    /\ UNCHANGED adv_vars

\* validated = ValidatedDeal(**data)
BuildDirect ==
    /\ pc = "idle"
    /\ \E data \in RawDeals :
        \E call \in {validated_deal_validate(data,
                                             [id |-> 1, created_at |-> 1])} :
            /\ deal' = IF call.ok THEN call.value[1] ELSE NoDeal
            /\ intake_call' = [op |-> "ValidatedDeal", raised |-> ~call.ok,
                               before |-> NoDeal]
    /\ pc' = "built"
    /\ UNCHANGED <<config, evaluation, evaluation_again, decision,
                   decision_again, local_thresholds, in_flight,
                   override_response, metrics_result>>
    /\ UNCHANGED sim_vars
    /\ UNCHANGED adv_vars

\* validated.field = value
AssignField ==
    /\ pc = "built"
    /\ deal # NoDeal
    /\ \E assignment \in FieldAssignments :
        \E call \in {setattr_frozen(deal, assignment[1], assignment[2])} :
            /\ deal' = call.deal
            /\ intake_call' = [op |-> assignment[1], raised |-> call.raised,
                               before |-> deal]
    /\ pc' = "assigned"
    /\ UNCHANGED <<config, evaluation, evaluation_again, decision,
                   decision_again, local_thresholds, in_flight,
                   override_response, metrics_result>>
    /\ UNCHANGED sim_vars
    /\ UNCHANGED adv_vars

\* the deal is dropped
IntakeDone ==
    /\ pc \in {"built", "assigned"}
    /\ deal' = NoDeal
    /\ intake_call' = NoIntakeCall
    /\ pc' = "idle"
    /\ UNCHANGED <<config, evaluation, evaluation_again, decision,
                   decision_again, local_thresholds, in_flight,
                   override_response, metrics_result>>
    /\ UNCHANGED sim_vars
    /\ UNCHANGED adv_vars

IntakeNext ==
    \/ BuildFromInput
    \/ BuildDirect
    \/ AssignField
    \/ IntakeDone

IntakeSpec == IntakeInit /\ [][IntakeNext]_vars

(***************************************************************************)
(* Properties.                                                             *)
(***************************************************************************)
\* the evaluation in hand is the result of evaluate_deal(deal, config)
Evaluated ==
    /\ pc \in {"evaluated", "evaluated_again", "routed", "routed_again"}
    /\ deal # NoDeal

\* the decision in hand is the result of route_deal(evaluation, config)
Routed == pc \in {"routed", "routed_again"}

\* a step that is a call of evaluate_deal
EvaluateStep ==
    /\ pc \in {"validated", "evaluated"}
    /\ pc' \in {"evaluated", "evaluated_again"}

\* a step that is a call of route_deal
RouteStep ==
    /\ pc \in {"evaluated", "evaluated_again", "synthetic", "routed"}
    /\ pc' \in {"routed", "routed_again"}

\* the value of a threshold field for a segment: the override's value when
\* the segment has an override that sets the field, else the config's default
ExpectedThreshold(cfg, segment, field) ==
    IF /\ segment \in DOMAIN cfg.segment_overrides
       /\ field \in cfg.segment_overrides[segment].fields_set
    THEN cfg.segment_overrides[segment][field]
    ELSE cfg.defaults[field]

\* the rule of that id has a trigger in the evaluation and each such trigger
\* is triggered exactly when cond holds
TriggeredIff(rule_id, cond) ==
    /\ \E i \in 1..Len(evaluation.triggers) :
            evaluation.triggers[i].rule_id = rule_id
    /\ \A i \in 1..Len(evaluation.triggers) :
            evaluation.triggers[i].rule_id = rule_id
                => (evaluation.triggers[i].triggered <=> cond)

\* the rule ids of the triggers that fired
TriggeredRules ==
    { evaluation.triggers[i].rule_id :
        i \in { j \in 1..Len(evaluation.triggers) :
                    evaluation.triggers[j].triggered } }

C2_InputsNotMutated ==
    [][ /\ EvaluateStep => (deal' = deal /\ config' = config)
        /\ RouteStep => (evaluation' = evaluation /\ config' = config) ]_vars

\* a deal of a segment with an override that differs from the defaults was
\* evaluated and routed
C2_Witness ==
    /\ pc = "routed"
    /\ deal # NoDeal
    /\ deal.customer_segment \in DOMAIN config.segment_overrides
    /\ local_thresholds.discount_threshold
            # config.defaults.discount_threshold
    /\ ~decision.auto_approved

\* C3: the three numeric rules use strict inequality against the thresholds
\* resolved for the deal's segment; a value equal to its threshold does not
\* trigger the rule.
C3_StrictInequality ==
    Evaluated =>
        /\ TriggeredIff("DISCOUNT_THRESHOLD",
              deal.discount_percentage >
                ExpectedThreshold(config, deal.customer_segment,
                                  "discount_threshold"))
        /\ TriggeredIff("ACV_EXEC_THRESHOLD",
              deal.annual_contract_value >
                ExpectedThreshold(config, deal.customer_segment,
                                  "acv_exec_threshold"))
        /\ TriggeredIff("PAYMENT_TERMS_LIMIT",
              deal.payment_terms_days >
                ExpectedThreshold(config, deal.customer_segment,
                                  "payment_terms_limit"))

\* a deal whose discount and payment terms equal the overridden thresholds
\* of its segment and whose contract value is above its threshold
C3_Witness ==
    /\ pc = "evaluated"
    /\ deal.customer_segment \in DOMAIN config.segment_overrides
    /\ deal.discount_percentage = local_thresholds.discount_threshold
    /\ deal.discount_percentage > DefaultDiscountThreshold
    /\ deal.payment_terms_days = local_thresholds.payment_terms_limit
    /\ deal.annual_contract_value > local_thresholds.acv_exec_threshold
    /\ TriggeredRules = {"ACV_EXEC_THRESHOLD"}

\* C4: EU_LEGAL_REVIEW is triggered iff the region is EU and the
\* eu_requires_legal value resolved for the deal's segment is true;
\* CUSTOM_SECURITY_CLAUSE is triggered iff custom_security_clause is true.
C4_FlagRules ==
    Evaluated =>
        /\ TriggeredIff("EU_LEGAL_REVIEW",
              /\ deal.region = "EU"
              /\ ExpectedThreshold(config, deal.customer_segment,
                                   "eu_requires_legal"))
        /\ TriggeredIff("CUSTOM_SECURITY_CLAUSE", deal.custom_security_clause)

\* an EU deal of a segment whose override disables legal review under
\* defaults that require it, carrying a custom security clause
C4_Witness ==
    /\ pc = "evaluated"
    /\ deal.region = "EU"
    /\ config.defaults.eu_requires_legal
    /\ ~local_thresholds.eu_requires_legal
    /\ deal.custom_security_clause
    /\ "EU_LEGAL_REVIEW" \notin TriggeredRules
    /\ "CUSTOM_SECURITY_CLAUSE" \in TriggeredRules

\* C5: evaluate_deal returns exactly five triggers, in the order
\* DISCOUNT_THRESHOLD (Finance), ACV_EXEC_THRESHOLD (Exec), EU_LEGAL_REVIEW
\* (Legal), PAYMENT_TERMS_LIMIT (Finance), CUSTOM_SECURITY_CLAUSE (Security),
\* triggered or not, and the result's deal_id is the deal's id.
C5_FiveTriggersInOrder ==
    Evaluated =>
        /\ Len(evaluation.triggers) = 5
        /\ [i \in 1..5 |-> <<evaluation.triggers[i].rule_id,
                             evaluation.triggers[i].owner>>]
              = << <<"DISCOUNT_THRESHOLD", "Finance">>,
                   <<"ACV_EXEC_THRESHOLD", "Exec">>,
                   <<"EU_LEGAL_REVIEW", "Legal">>,
                   <<"PAYMENT_TERMS_LIMIT", "Finance">>,
                   <<"CUSTOM_SECURITY_CLAUSE", "Security">> >>
        /\ evaluation.deal_id = deal.id

\* the second identity's deal was evaluated and only its payment-terms rule
\* fired
C5_Witness ==
    /\ pc = "evaluated"
    /\ deal.id = 2
    /\ TriggeredRules = {"PAYMENT_TERMS_LIMIT"}

\* C6: a triggered rule's weight is config.rule_weights[rule_id], 0 when
\* the rule id is absent from rule_weights; a rule that did not trigger has
\* weight 0 whatever its configured weight; total_weight is the sum of the
\* five trigger weights.
C6_Weights ==
    Evaluated =>
        /\ \A i \in 1..Len(evaluation.triggers) :
            LET t == evaluation.triggers[i]
            IN  t.weight =
                    IF ~t.triggered THEN 0
                    ELSE IF t.rule_id \in DOMAIN config.rule_weights
                         THEN config.rule_weights[t.rule_id]
                         ELSE 0
        /\ Len(evaluation.triggers) = 5
        /\ evaluation.total_weight =
                evaluation.triggers[1].weight + evaluation.triggers[2].weight
                + evaluation.triggers[3].weight + evaluation.triggers[4].weight
                + evaluation.triggers[5].weight

\* under weights that leave EU_LEGAL_REVIEW out, a deal triggers that rule
\* and the discount rule but not the contract-value rule, which has a
\* configured weight
C6_Witness ==
    /\ pc = "evaluated"
    /\ "EU_LEGAL_REVIEW" \notin DOMAIN config.rule_weights
    /\ config.rule_weights["ACV_EXEC_THRESHOLD"] > 0
    /\ TriggeredRules = {"DISCOUNT_THRESHOLD", "EU_LEGAL_REVIEW"}
    /\ evaluation.total_weight = config.rule_weights["DISCOUNT_THRESHOLD"]

\* C7: priority is P1 if total_weight >= cutoffs.P1, else P2 if >=
\* cutoffs.P2, else P3 if >= cutoffs.P3, else "None"; with the default
\* cutoffs (5, 3, 1) total_weight 0 gives None, 1 and 2 give P3, 3 and 4
\* give P2, 5 or more gives P1.
C7_Priority ==
    Evaluated =>
        LET w == evaluation.total_weight
            cutoffs == config.priority_cutoffs
        IN  /\ evaluation.priority =
                    IF w >= cutoffs.P1 THEN "P1"
                    ELSE IF w >= cutoffs.P2 THEN "P2"
                    ELSE IF w >= cutoffs.P3 THEN "P3"
                    ELSE "None"
            /\ cutoffs = [P1 |-> 5, P2 |-> 3, P3 |-> 1] =>
                    /\ w = 0 => evaluation.priority = "None"
                    /\ w \in {1, 2} => evaluation.priority = "P3"
                    /\ w \in {3, 4} => evaluation.priority = "P2"
                    /\ w >= 5 => evaluation.priority = "P1"

\* under the default cutoffs a deal totals exactly the P2 cutoff
C7_Witness ==
    /\ pc = "evaluated"
    /\ config.priority_cutoffs = [P1 |-> 5, P2 |-> 3, P3 |-> 1]
    /\ evaluation.total_weight = 3
    /\ evaluation.priority = "P2"

\* the deal meets none of the five rule conditions under the thresholds of
\* its segment
NoRuleCondition ==
    /\ deal.discount_percentage <=
            ExpectedThreshold(config, deal.customer_segment,
                              "discount_threshold")
    /\ deal.annual_contract_value <=
            ExpectedThreshold(config, deal.customer_segment,
                              "acv_exec_threshold")
    /\ \/ deal.region # "EU"
       \/ ~ExpectedThreshold(config, deal.customer_segment,
                             "eu_requires_legal")
    /\ deal.payment_terms_days <=
            ExpectedThreshold(config, deal.customer_segment,
                              "payment_terms_limit")
    /\ ~deal.custom_security_clause

\* C8 as stated: a deal meeting none of the rule conditions is
\* auto-approved with an empty escalation path, priority "None" and
\* total_weight 0, for every config.
C8_Original ==
    (Evaluated /\ Routed /\ NoRuleCondition) =>
        /\ decision.auto_approved
        /\ decision.approval_status = "Auto-Approved"
        /\ decision.escalation_path = <<>>
        /\ decision.priority = "None"
        /\ decision.total_weight = 0

\* C8 (amended): a deal meeting none of the rule conditions is
\* auto-approved with approval_status "Auto-Approved", an empty escalation
\* path and total_weight 0; its priority is "None" when all three cutoffs
\* are above 0, and otherwise the first tier in the order P1, P2, P3 whose
\* cutoff is not above 0.
C8_AutoApproval ==
    (Evaluated /\ Routed /\ NoRuleCondition) =>
        /\ decision.auto_approved
        /\ decision.approval_status = "Auto-Approved"
        /\ decision.escalation_path = <<>>
        /\ decision.total_weight = 0
        /\ decision.priority =
                IF config.priority_cutoffs.P1 <= 0 THEN "P1"
                ELSE IF config.priority_cutoffs.P2 <= 0 THEN "P2"
                ELSE IF config.priority_cutoffs.P3 <= 0 THEN "P3"
                ELSE "None"

\* an EU deal of a segment with legal review disabled, its discount and
\* payment terms equal to their thresholds, was routed under positive
\* cutoffs
C8_Witness ==
    /\ pc = "routed"
    /\ deal # NoDeal
    /\ NoRuleCondition
    /\ deal.region = "EU"
    /\ deal.discount_percentage = local_thresholds.discount_threshold
    /\ deal.payment_terms_days = local_thresholds.payment_terms_limit
    /\ config.priority_cutoffs.P3 > 0
    /\ decision.auto_approved
    /\ decision.priority = "None"

FiredOwners ==
    { evaluation.triggers[i].owner :
        i \in { j \in 1..Len(evaluation.triggers) :
                    evaluation.triggers[j].triggered } }

\* C10: for every evaluation, hand-built ones included, the escalation
\* path of route_deal holds no team twice and its teams are exactly the
\* owners of the triggers with triggered = true; a deal triggering
\* DISCOUNT_THRESHOLD and PAYMENT_TERMS_LIMIT gets the path <<"Finance">>.
C10_PathDeduplicated ==
    Routed =>
        /\ \A i, j \in 1..Len(decision.escalation_path) :
                i # j => decision.escalation_path[i]
                            # decision.escalation_path[j]
        /\ Range(decision.escalation_path) = FiredOwners
        /\ (deal # NoDeal
            /\ TriggeredRules = {"DISCOUNT_THRESHOLD", "PAYMENT_TERMS_LIMIT"})
                => decision.escalation_path = <<"Finance">>

\* a hand-built evaluation whose three triggers all fired, two of them
\* owned by the same team outside the escalation order, was routed
C10_Witness ==
    /\ pc = "routed"
    /\ deal = NoDeal
    /\ Len(evaluation.triggers) = 3
    /\ \A i \in 1..3 : evaluation.triggers[i].triggered
    /\ evaluation.triggers[1].owner = "Compliance"
    /\ evaluation.triggers[3].owner = "Compliance"
    /\ evaluation.triggers[2].owner = "Finance"
    /\ Len(decision.escalation_path) = 2

\* the position of a team in the escalation path of the decision
PathPosition(team) ==
    CHOOSE i \in 1..Len(decision.escalation_path) :
        decision.escalation_path[i] = team

\* the first and the last position of a team in an escalation order
FirstIndex(escalation_order, team) ==
    CHOOSE i \in 1..Len(escalation_order) :
        /\ escalation_order[i] = team
        /\ \A j \in 1..(i - 1) : escalation_order[j] # team

LastIndex(escalation_order, team) ==
    CHOOSE i \in 1..Len(escalation_order) :
        /\ escalation_order[i] = team
        /\ \A j \in (i + 1)..Len(escalation_order) : escalation_order[j] # team

\* the position of the first fired trigger owned by a team
FirstFired(team) ==
    CHOOSE i \in 1..Len(evaluation.triggers) :
        /\ evaluation.triggers[i].triggered
        /\ evaluation.triggers[i].owner = team
        /\ \A j \in 1..(i - 1) :
                ~(evaluation.triggers[j].triggered
                  /\ evaluation.triggers[j].owner = team)

\* the path puts unknown teams behind known ones and keeps unknown teams in
\* the order of their first fired trigger
UnknownTeamsLast ==
    LET known == Range(config.escalation_order)
        path == Range(decision.escalation_path)
    IN  /\ \A a \in path \cap known, b \in path \ known :
                PathPosition(a) < PathPosition(b)
        /\ \A a, b \in path \ known :
                FirstFired(a) < FirstFired(b)
                    => PathPosition(a) < PathPosition(b)

\* C11: the escalation path is ordered by config.escalation_order: of two
\* teams in the path that both appear in escalation_order the one with the
\* smaller index (its position in the order, the first one for a team listed
\* twice) comes first; every team not in escalation_order comes after all
\* known teams; unknown teams keep among themselves the order of their first
\* occurrence among the fired triggers.
C11_EscalationOrder ==
    Routed =>
        /\ \A a, b \in Range(decision.escalation_path)
                            \cap Range(config.escalation_order) :
                FirstIndex(config.escalation_order, a)
                    < FirstIndex(config.escalation_order, b)
                    => PathPosition(a) < PathPosition(b)
        /\ UnknownTeamsLast

\* what the path is ordered by: a team listed more than once in
\* escalation_order counts at its last position
OrderedByLastIndex ==
    Routed =>
        /\ \A a, b \in Range(decision.escalation_path)
                            \cap Range(config.escalation_order) :
                LastIndex(config.escalation_order, a)
                    < LastIndex(config.escalation_order, b)
                    => PathPosition(a) < PathPosition(b)
        /\ UnknownTeamsLast

\* C12: route_deal passes the evaluation through unchanged in both
\* branches: the decision's deal_id, rule_triggers, priority and
\* total_weight are those of the evaluation.
C12_PassThrough ==
    Routed =>
        /\ decision.deal_id = evaluation.deal_id
        /\ decision.rule_triggers = evaluation.triggers
        /\ decision.priority = evaluation.priority
        /\ decision.total_weight = evaluation.total_weight
        /\ pc = "routed_again" =>
                /\ decision_again.deal_id = evaluation.deal_id
                /\ decision_again.rule_triggers = evaluation.triggers
                /\ decision_again.priority = evaluation.priority
                /\ decision_again.total_weight = evaluation.total_weight

\* a hand-built evaluation of priority P2 none of whose three triggers
\* fired was auto-approved
C12_Witness ==
    /\ pc = "routed"
    /\ deal = NoDeal
    /\ Len(evaluation.triggers) = 3
    /\ decision.auto_approved
    /\ evaluation.priority = "P2"
    /\ Len(decision.rule_triggers) = 3

\* a simulation response is in hand
Simulated == pc \in {"simulated", "simulated_again"}

\* a step that is a call of run_simulation
SimulateStep ==
    /\ pc \in {"serving", "simulated"}
    /\ pc' \in {"simulated", "simulated_again"}

\* the stored deals the simulation runs over
ProcessedDeals == get_processed_deals(deals_table)

\* the request changes no section of the config
EmptyPatch ==
    /\ sim_request.defaults = None
    /\ sim_request.segment_overrides = None
    /\ sim_request.rule_weights = None
    /\ sim_request.escalation_order = None

\* C13: simulation never mutates persisted state: for every request and
\* every store content, the deals table (attributes, status, stored
\* evaluation, decision and advisory) and the overrides table are after
\* run_simulation what they were before.
C13_StoreUntouched ==
    [][ SimulateStep =>
            /\ deals_table' = deals_table
            /\ overrides_table' = overrides_table ]_vars

\* a request with new defaults was run twice over a store holding a
\* processed deal, an overridden deal and its override, and changed the
\* outcome
C13_Witness ==
    /\ pc = "simulated_again"
    /\ Len(deals_table) = 2
    /\ Len(ProcessedDeals) = 1
    /\ Len(overrides_table) = 1
    /\ sim_request.defaults # None
    /\ sim_result.delta.auto_approved # 0

\* C14: a simulation with no change is the identity: for every baseline
\* config and every set of stored deals, a request with an empty patch and
\* no disabled rules yields simulated metrics equal to the original metrics
\* and every delta (rates, counts, per team) equal to zero.
C14_NoChangeIdentity ==
    (Simulated /\ EmptyPatch /\ sim_request.disabled_rules = <<>>) =>
        /\ sim_result.simulated = sim_result.original
        /\ sim_result.delta.auto_approval_rate = 0
        /\ sim_result.delta.escalation_rate = 0
        /\ sim_result.delta.auto_approved = 0
        /\ sim_result.delta.escalated = 0
        /\ \A team \in DOMAIN sim_result.delta.escalation_by_team :
                sim_result.delta.escalation_by_team[team] = 0

\* the section of the simulated config a request asks for: the patch's when
\* the patch has one, else the baseline's
PatchedDefaults ==
    IF sim_request.defaults # None
    THEN sim_request.defaults[1] ELSE config.defaults

PatchedOverrides ==
    IF sim_request.segment_overrides # None
    THEN sim_request.segment_overrides[1] ELSE config.segment_overrides

\* the simulated config is the baseline with the patched sections replaced
\* wholesale
SectionsReplaced ==
    LET sim_config == sim_locals.sim_config
    IN  /\ \A f \in ThresholdFields : sim_config.defaults[f] = PatchedDefaults[f]
        /\ DOMAIN sim_config.segment_overrides = DOMAIN PatchedOverrides
        /\ \A seg \in DOMAIN PatchedOverrides :
            \A f \in PatchedOverrides[seg].fields_set :
                sim_config.segment_overrides[seg][f] = PatchedOverrides[seg][f]
        /\ sim_config.rule_weights =
                IF sim_request.rule_weights # None
                THEN sim_request.rule_weights[1] ELSE config.rule_weights
        /\ sim_config.escalation_order =
                IF sim_request.escalation_order # None
                THEN sim_request.escalation_order[1]
                ELSE config.escalation_order
        /\ sim_config.priority_cutoffs = config.priority_cutoffs

\* C15: the simulated config is the baseline with only the patched
\* top-level sections replaced, and segment overrides stay partial in it:
\* for every segment with an override, inherited or supplied in the patch,
\* a field the override sets resolves to the override's value and a field
\* it does not set resolves to the simulated config's defaults.
C15_OverridesStayPartial ==
    Simulated =>
        /\ SectionsReplaced
        /\ \A seg \in DOMAIN PatchedOverrides, f \in ThresholdFields :
            resolve_thresholds(sim_locals.sim_config, seg).ret[f] =
                IF f \in PatchedOverrides[seg].fields_set
                THEN PatchedOverrides[seg][f]
                ELSE sim_locals.sim_config.defaults[f]

\* the rule ids of the triggers of an evaluation that fired
FiredRules(ev) ==
    { ev.triggers[i].rule_id :
        i \in { j \in 1..Len(ev.triggers) : ev.triggers[j].triggered } }

\* in the simulated pass every disabled rule is zeroed, total weight and
\* priority are recomputed with the simulated cutoffs, routing uses the
\* modified triggers, and a deal that triggered only disabled rules is
\* auto-approved
DisabledRulesRescored ==
    \A k \in 1..Len(sim_locals.outcomes) :
        LET o == sim_locals.outcomes[k]
            disabled == Range(sim_request.disabled_rules)
            cutoffs == sim_locals.sim_config.priority_cutoffs
            w == o.evaluation.total_weight
        IN  /\ Len(o.evaluation.triggers) = 5
            /\ \A i \in 1..5 :
                IF o.evaluated.triggers[i].rule_id \in disabled
                THEN /\ ~o.evaluation.triggers[i].triggered
                     /\ o.evaluation.triggers[i].weight = 0
                     /\ o.evaluation.triggers[i].rule_id
                            = o.evaluated.triggers[i].rule_id
                ELSE o.evaluation.triggers[i] = o.evaluated.triggers[i]
            /\ w = o.evaluation.triggers[1].weight
                    + o.evaluation.triggers[2].weight
                    + o.evaluation.triggers[3].weight
                    + o.evaluation.triggers[4].weight
                    + o.evaluation.triggers[5].weight
            /\ o.evaluation.priority =
                    IF w >= cutoffs.P1 THEN "P1"
                    ELSE IF w >= cutoffs.P2 THEN "P2"
                    ELSE IF w >= cutoffs.P3 THEN "P3"
                    ELSE "None"
            /\ o.decision.rule_triggers = o.evaluation.triggers
            /\ o.decision.priority = o.evaluation.priority
            /\ o.decision.auto_approved <=> FiredRules(o.evaluation) = {}
            /\ FiredRules(o.evaluated) \subseteq disabled
                    => o.decision.auto_approved

\* C16: disabling rules in a simulation zeroes them and recomputes the
\* outcome: every disabled trigger has triggered = false and weight 0,
\* total_weight and priority are recomputed, routing uses the modified
\* triggers, every deal that triggered only disabled rules is auto-approved
\* in the simulated pass; and with an otherwise empty patch
\* simulated.auto_approved >= original.auto_approved and
\* delta.escalated <= 0.
C16_DisabledRules ==
    Simulated =>
        /\ DisabledRulesRescored
        /\ EmptyPatch =>
            /\ sim_result.simulated.auto_approved
                    >= sim_result.original.auto_approved
            /\ sim_result.delta.escalated <= 0

\* C17: the simulation delta is simulated minus original: the counts of
\* auto-approved and escalated deals, and per team over exactly the union
\* of the team keys of both passes, a missing key counting as 0.
C17_Delta ==
    Simulated =>
        LET original == sim_result.original
            simulated == sim_result.simulated
            delta == sim_result.delta
            count(m, team) ==
                IF team \in DOMAIN m.escalation_by_team
                THEN m.escalation_by_team[team] ELSE 0
        IN  /\ delta.auto_approved
                    = simulated.auto_approved - original.auto_approved
            /\ delta.escalated = simulated.escalated - original.escalated
            /\ DOMAIN delta.escalation_by_team
                    = (DOMAIN original.escalation_by_team)
                        \cup (DOMAIN simulated.escalation_by_team)
            /\ \A team \in DOMAIN delta.escalation_by_team :
                    delta.escalation_by_team[team]
                        = count(simulated, team) - count(original, team)

\* a run whose original pass escalated to a team the simulated pass did not
\* escalate to, and whose simulated pass still escalated
C17_Witness ==
    /\ pc = "simulated"
    /\ \E team \in DOMAIN sim_result.original.escalation_by_team :
            team \notin DOMAIN sim_result.simulated.escalation_by_team
    /\ sim_result.simulated.escalated > 0
    /\ sim_result.delta.escalated < 0

\* C18: simulation is deterministic: a second run of the same request
\* against the same stored deals and the same loaded config yields the same
\* original metrics, simulated metrics and delta, although each run
\* reconstructs the deals under fresh ids and timestamps.
C18_SimulationDeterministic ==
    pc = "simulated_again" => sim_result_again = sim_result

\* a request was run twice over two processed deals, the second run
\* reconstructing them under other identities, and the simulated pass
\* counted fired rules
C18_Witness ==
    /\ pc = "simulated_again"
    /\ Len(ProcessedDeals) = 2
    /\ Len(sim_locals.outcomes) = 2
    /\ sim_locals.outcomes[1].evaluation.deal_id > SimClocks[2]
    /\ Len(sim_result_again.simulated.top_rule_triggers) >= 2
    /\ sim_result_again.delta.escalated # 0

\* both submissions of a round have been answered with a result
BothAnswered ==
    /\ pc = "both"
    /\ response_plain.status_code = 201
    /\ response_clause.status_code = 201

\* the triggers of the evaluation stored for the deal of a response
StoredTriggers(response) ==
    get_deal(deals_table, response.ret[1].deal.id)[1].evaluation_json[1].triggers

\* C19: whenever a deal is answered by the pipeline without clause_text and
\* with one, under any config, advisory mode and replies of the API, the two
\* routing decisions have the same approval_status, escalation_path,
\* priority, total_weight and rule triggers, the two stored evaluations have
\* the same five triggers, and the decision is the one route_deal and
\* evaluate_deal give for the deal without its clause_text: neither
\* clause_text nor the advisory (parsed, mock or fallback) is read.
C19_AdvisoryIndependence ==
    BothAnswered =>
        /\ response_plain.ret[1].advisory = None
        /\ response_clause.ret[1].advisory # None
        /\ response_clause.ret[1].deal.clause_text \in ClauseTexts
        /\ response_clause.ret[1].decision.approval_status =
                response_plain.ret[1].decision.approval_status
        /\ response_clause.ret[1].decision.escalation_path =
                response_plain.ret[1].decision.escalation_path
        /\ response_clause.ret[1].decision.priority =
                response_plain.ret[1].decision.priority
        /\ response_clause.ret[1].decision.total_weight =
                response_plain.ret[1].decision.total_weight
        /\ response_clause.ret[1].decision.auto_approved =
                response_plain.ret[1].decision.auto_approved
        /\ response_clause.ret[1].decision.rule_triggers =
                response_plain.ret[1].decision.rule_triggers
        /\ StoredTriggers(response_clause) = StoredTriggers(response_plain)
        /\ response_clause.ret[1].decision =
                route_deal(
                    evaluate_deal(
                        [response_clause.ret[1].deal
                            EXCEPT !.clause_text = "None"],
                        config).ret,
                    config).ret

\* an escalated deal whose clause got the fallback advisory after three
\* failed attempts
C19_Witness ==
    /\ BothAnswered
    /\ ~response_plain.ret[1].decision.auto_approved
    /\ response_clause.ret[1].advisory[1].error # None
    /\ response_clause.ret[1].advisory[1].review_required

\* a call of _live_analyze has returned an advisory
LiveReturned == pc = "analyzed" /\ ~advisory_call.raised

\* the outcome of the i-th attempt of the call: the reply's exception or
\* the parse of its text
AttemptOf(i) ==
    IF advisory_call.script[i].ok
    THEN parse_advisory(advisory_call.script[i].value[1],
                        advisory_call.clause_text, DEFAULT_MODEL)
    ELSE advisory_call.script[i]

\* C20: a live call makes at most MAX_RETRIES = 3 requests; it returns the
\* advisory parsed from the first reply that parses, having made no request
\* after it; when the three replies all fail (exception or unparseable text,
\* in any mix) it returns the fallback: confidence 0.0, review_required,
\* the clause as raw_clause, and the error of the third attempt.
C20_BoundedRetries ==
    LiveReturned =>
        /\ MAX_RETRIES = 3
        /\ advisory_call.call_count \in 1..3
        /\ \A i \in 1..3 :
            (AttemptOf(i).ok /\ \A j \in 1..(i - 1) : ~AttemptOf(j).ok) =>
                /\ advisory_call.call_count = i
                /\ advisory_call.ret[1] = AttemptOf(i).value[1]
                /\ advisory_call.ret[1].error = None
                /\ advisory_call.ret[1].raw_clause = advisory_call.clause_text
                /\ advisory_call.ret[1].confidence =
                        advisory_call.script[i].value[1][1].confidence
        /\ (\A i \in 1..3 : ~AttemptOf(i).ok) =>
                /\ advisory_call.call_count = 3
                /\ advisory_call.ret[1].confidence = 0
                /\ advisory_call.ret[1].review_required
                /\ advisory_call.ret[1].raw_clause = advisory_call.clause_text
                /\ advisory_call.ret[1].summary =
                    "Unable to analyze clause - flagged for manual review."
                /\ advisory_call.ret[1].risk_level = "Medium"
                /\ advisory_call.ret[1].categories = <<"Other">>
                /\ advisory_call.ret[1].error =
                    Some([attempt |-> 3, of |-> 3,
                          exception |-> AttemptOf(3).exception])

\* three failures of different kinds (a transport exception, a text that is
\* no JSON, a document that fails validation) before a reply that would
\* have parsed: the fallback is returned after three requests
C20_Witness ==
    /\ LiveReturned
    /\ ~advisory_call.script[1].ok
    /\ AttemptOf(2).exception = "JSONDecodeError"
    /\ AttemptOf(3).exception = "ValidationError"
    /\ AttemptOf(4).ok
    /\ advisory_call.call_count = 3
    /\ advisory_call.ret[1].error # None

\* the environment in which _live_analyze raises before its first attempt
LiveMisconfigured ==
    /\ advisory_env.mode = "live"
    /\ ~advisory_env.api_key \/ advisory_env.client_error

\* the row stored for the deal of a response
StoredDeal(response) == get_deal(deals_table, response.ret[1].deal.id)

\* C21 as stated: for every submission with clause_text and every failure of
\* the advisory, a missing API key and a failing client construction
\* included, the advisory call returns an advisory and the pipeline answers
\* with the decision, the deal persisted as 'processed'.
C21_Original ==
    /\ pc = "analyzed" => ~advisory_call.raised
    /\ pc = "both" =>
        /\ response_clause.status_code = 201
        /\ response_clause.ret[1].advisory # None
        /\ StoredDeal(response_clause) # None
        /\ StoredDeal(response_clause)[1].status = "processed"

\* C21 (amended): failures of the attempts never propagate: in mock mode,
\* and in live mode with an API key and a constructed client, under every
\* script of replies the advisory call returns an advisory (parsed, mock or
\* the fallback) and the pipeline answers 201 with the decision and the
\* advisory, the deal persisted as 'processed' with both; in live mode
\* without an API key or with a failing client construction _live_analyze
\* raises before any request, and the submission with clause_text fails
\* with nothing persisted.
C21_FailuresDegrade ==
    /\ pc = "analyzed" =>
        /\ advisory_call.raised <=> LiveMisconfigured
        /\ advisory_call.raised =>
                advisory_call.ret = None /\ advisory_call.call_count = 0
        /\ ~advisory_call.raised => advisory_call.ret # None
    /\ (pc = "both" /\ ~LiveMisconfigured) =>
        /\ response_clause.status_code = 201
        /\ response_clause.ret[1].advisory # None
        /\ response_clause.ret[1].advisory[1].raw_clause =
                response_clause.ret[1].deal.clause_text
        /\ StoredDeal(response_clause) # None
        /\ StoredDeal(response_clause)[1].status = "processed"
        /\ StoredDeal(response_clause)[1].decision_json =
                Some(response_clause.ret[1].decision)
        /\ StoredDeal(response_clause)[1].advisory_json =
                response_clause.ret[1].advisory
        /\ Len(deals_table) = 2
    /\ (pc = "both" /\ LiveMisconfigured) =>
        /\ response_clause.status_code = 500
        /\ response_clause.ret = None
        /\ Len(deals_table) = 1

\* a submission in live mode whose three attempts failed: answered with the
\* fallback advisory and persisted
C21_Witness ==
    /\ pc = "both"
    /\ advisory_env.mode = "live"
    /\ response_clause.status_code = 201
    /\ response_clause.ret[1].advisory[1].error # None
    /\ response_clause.ret[1].advisory[1].confidence = 0
    /\ StoredDeal(response_clause)[1].status = "processed"

\* the constraints DealInput declares, on the fields of a deal
FieldsValid(d) ==
    /\ d.deal_type \in {"New", "Renewal", "Expansion", "Pilot"}
    /\ d.customer_segment \in {"Enterprise", "Mid-Market", "SMB", "Strategic"}
    /\ d.region \in {"NA", "EU", "UK", "APAC", "LATAM", "MEA"}
    /\ d.annual_contract_value > 0
    /\ d.discount_percentage >= 0
    /\ d.discount_percentage <= 100
    /\ d.payment_terms_days > 0
    /\ d.clause_text \notin {"", " ", "   "}

\* C22: every ValidatedDeal that exists, built through DealInput and
\* from_input or directly, has a positive contract value, a discount within
\* 0..100, positive payment terms, enum members in its enum fields and a
\* clause_text that is absent or not blank; and an assignment to a field of
\* a deal is rejected and leaves the deal as it was.
C22_ValidatedDealValid ==
    /\ (pc \in {"built", "assigned"} /\ deal # NoDeal) => FieldsValid(deal)
    /\ pc = "assigned" => intake_call.raised /\ deal = intake_call.before

\* the step is an override request answered with the primed response
OverrideStep ==
    /\ pc = "serving"
    /\ pc' = "responded"
    /\ override_response' # NoOverrideResponse

\* the rows of the deals table with the given id
RowsOf(deal_id) == SelectSeq(deals_table, LAMBDA row : row.id = deal_id)

\* C23: an override request for an id no deal has is answered 404, for a
\* deal without a stored decision 400, for a deal whose stored decision is
\* auto-approved 400, and a rejected request changes neither table; any
\* other request is answered 201, appends exactly one override record that
\* holds the deal's id and stored decision, and changes the deals table only
\* in the status of that deal, which becomes 'overridden'.
C23_OverrideAcceptance ==
    [][OverrideStep =>
        /\ override_response'.status_code \in {404, 400, 201}
        /\ override_response'.status_code = 404 <=>
                RowsOf(override_response'.deal_id) = <<>>
        /\ override_response'.status_code = 400 <=>
            /\ RowsOf(override_response'.deal_id) # <<>>
            /\ \/ RowsOf(override_response'.deal_id)[1].decision_json = None
               \/ RowsOf(override_response'.deal_id)[1].decision_json[1]
                        .auto_approved
        /\ override_response'.status_code # 201 =>
            /\ overrides_table' = overrides_table
            /\ deals_table' = deals_table
        /\ override_response'.status_code = 201 =>
            /\ Len(overrides_table') = Len(overrides_table) + 1
            /\ SubSeq(overrides_table', 1, Len(overrides_table)) =
                    overrides_table
            /\ overrides_table'[Len(overrides_table')].deal_id =
                    override_response'.deal_id
            /\ Some(overrides_table'[Len(overrides_table')]
                        .original_decision_json) =
                    RowsOf(override_response'.deal_id)[1].decision_json
            /\ Len(deals_table') = Len(deals_table)
            /\ \A i \in 1..Len(deals_table) :
                deals_table'[i] =
                    IF deals_table[i].id = override_response'.deal_id
                    THEN [deals_table[i] EXCEPT !.status = "overridden"]
                    ELSE deals_table[i]
    ]_vars

\* an accepted override of a processed, escalated deal, next to a deal that
\* is stored without a decision
C23_Witness ==
    /\ pc = "responded"
    /\ override_response.status_code = 201
    /\ Len(overrides_table) = 1
    /\ \E i \in 1..Len(deals_table) :
        /\ deals_table[i].id = override_response.deal_id
        /\ deals_table[i].status = "overridden"
        /\ ~deals_table[i].decision_json[1].auto_approved
    /\ \E i \in 1..Len(deals_table) : deals_table[i].decision_json = None

\* some trigger of the evaluation in hand has triggered = true
AnyTriggered ==
    \E i \in 1..Len(evaluation.triggers) : evaluation.triggers[i].triggered

\* C24: in every decision of route_deal, auto_approved, approval_status
\* "Auto-Approved", an empty escalation_path and an evaluation none of whose
\* triggers has triggered = true hold together or not at all; a decision
\* that is not auto-approved has approval_status "Escalated" and a non-empty
\* escalation_path; no other approval_status occurs.
C24_DecisionConsistent ==
    Routed =>
        /\ decision.approval_status \in {"Auto-Approved", "Escalated"}
        /\ decision.auto_approved <=>
                decision.approval_status = "Auto-Approved"
        /\ decision.auto_approved <=> decision.escalation_path = <<>>
        /\ decision.auto_approved <=> ~AnyTriggered
        /\ ~decision.auto_approved =>
                /\ decision.approval_status = "Escalated"
                /\ Len(decision.escalation_path) >= 1
        /\ pc = "routed_again" =>
                /\ decision_again.approval_status
                        \in {"Auto-Approved", "Escalated"}
                /\ decision_again.auto_approved <=>
                        decision_again.approval_status = "Auto-Approved"
                /\ decision_again.auto_approved <=>
                        decision_again.escalation_path = <<>>
                /\ decision_again.auto_approved <=> ~AnyTriggered
                /\ ~decision_again.auto_approved =>
                        decision_again.approval_status = "Escalated"

\* a deal escalated on a fired trigger of weight 0: total_weight 0, and
\* still not auto-approved
C24_Witness ==
    /\ pc = "routed"
    /\ deal # NoDeal
    /\ AnyTriggered
    /\ decision.total_weight = 0
    /\ decision.approval_status = "Escalated"
    /\ Len(decision.escalation_path) = 1

\* the orders in which the deals of a sequence can be taken
Reorderings(deals) ==
    { [i \in 1..Len(deals) |-> deals[order[i]]] :
        order \in { f \in [1..Len(deals) -> 1..Len(deals)] :
                        \A i, j \in 1..Len(deals) : f[i] = f[j] => i = j } }

\* two passes' metrics agree in the counts, the rates, the team histogram
\* and the rule ids with their counts
SameAggregates(a, b) ==
    /\ a.total_deals = b.total_deals
    /\ a.auto_approved = b.auto_approved
    /\ a.escalated = b.escalated
    /\ a.auto_approval_rate = b.auto_approval_rate
    /\ a.escalation_rate = b.escalation_rate
    /\ a.escalation_by_team = b.escalation_by_team
    /\ Len(a.top_rule_triggers) = Len(b.top_rule_triggers)
    /\ {a.top_rule_triggers[i] : i \in 1..Len(a.top_rule_triggers)} =
            {b.top_rule_triggers[i] : i \in 1..Len(b.top_rule_triggers)}

\* C25: the metrics of each pass of a simulation are those the pass computes
\* over the same processed deals taken in any other order: the same
\* auto_approved and escalated counts, the same escalation_by_team
\* histogram, the same rule ids with the same counts in top_rule_triggers.
C25_OrderIndependent ==
    Simulated =>
        \A permuted \in Reorderings(ProcessedDeals) :
            /\ SameAggregates(sim_result.original,
                    compute_sim_metrics(permuted, config, <<>>,
                                        SimClocks[1]))
            /\ SameAggregates(sim_result.simulated,
                    compute_sim_metrics(permuted, sim_locals.sim_config,
                                        sim_request.disabled_rules,
                                        SimClocks[1]))

\* a simulation over two deals of different outcomes that fire different
\* rules: one auto-approved and one escalated in the simulated pass
C25_Witness ==
    /\ Simulated
    /\ Len(ProcessedDeals) = 2
    /\ sim_result.simulated.auto_approved = 1
    /\ sim_result.simulated.escalated = 1
    /\ Len(sim_result.original.top_rule_triggers) >= 2
    /\ sim_result.original.top_rule_triggers[1].count =
            sim_result.original.top_rule_triggers[2].count

\* the override records that reference the deal
OverridesOf(deal_id) ==
    SelectSeq(overrides_table, LAMBDA o : o.deal_id = deal_id)

\* C26: after any sequence of submissions, seedings with and without
\* auto_process, overrides, simulations, metrics reads and resets, every
\* stored deal has one of the three statuses; a validated deal has no
\* decision stored; a processed or overridden deal has its evaluation and
\* its decision stored; and a deal is overridden exactly when at least one
\* override record references it.
C26_StatusLifecycle ==
    \A i \in 1..Len(deals_table) :
        LET row == deals_table[i]
        IN  /\ row.status \in {"validated", "processed", "overridden"}
            /\ row.status = "validated" => row.decision_json = None
            /\ row.status \in {"processed", "overridden"} =>
                    /\ row.evaluation_json # None
                    /\ row.decision_json # None
            /\ row.status = "overridden" <=> OverridesOf(row.id) # <<>>

\* a store holding a validated, a processed or an overridden deal next to
\* one of another status, with an override recorded
C26_Witness ==
    /\ \E i \in 1..Len(deals_table) : deals_table[i].status = "overridden"
    /\ \E i \in 1..Len(deals_table) :
            deals_table[i].status \in {"validated", "processed"}
    /\ overrides_table # <<>>

\* the stored deals whose decision escalates
EscalatedRows ==
    SelectSeq(deals_table,
        LAMBDA row : row.decision_json # None
                        /\ ~row.decision_json[1].auto_approved)

\* C27: a deal is overridden at most once through the override endpoint:
\* every deal has at most one override record, so there are never more
\* override records than escalated deals, and every reported override_rate
\* is at most 1.
C27_OverriddenOnce ==
    /\ \A i \in 1..Len(deals_table) :
            Len(OverridesOf(deals_table[i].id)) <= 1
    /\ Len(overrides_table) <= Len(EscalatedRows)
    /\ metrics_result # None =>
            metrics_result[1].override_rate.num
                <= metrics_result[1].override_rate.den

\* the ids of the deals between insert_deal and update_deal_decision
InFlightIds == {in_flight[i].validated.id : i \in 1..Len(in_flight)}

\* the stored deals that are not between the two transactions
SettledRows == SelectSeq(deals_table, LAMBDA row : row.id \notin InFlightIds)

\* C28: readers never see a half-processed deal. While a deal is between
\* insert_deal and update_deal_decision, a simulation's population is the
\* processed deals among the others, a metrics read counts as auto-approved
\* or escalated only deals among the others, and an override request for
\* the deal is answered 400; and a deal with status 'processed' always has
\* both its evaluation and its decision.
C28_NoHalfProcessedDeal ==
    /\ sim_result # NoSimulationResult =>
            /\ sim_result.original.total_deals =
                    Len(get_processed_deals(SettledRows))
            /\ sim_result.simulated.total_deals =
                    Len(get_processed_deals(SettledRows))
    /\ metrics_result # None =>
            /\ metrics_result[1].auto_approved =
                    compute_metrics([deals |-> SettledRows,
                        overrides |-> overrides_table]).auto_approved
            /\ metrics_result[1].escalated =
                    compute_metrics([deals |-> SettledRows,
                        overrides |-> overrides_table]).escalated
    /\ override_response.deal_id \in InFlightIds =>
            override_response.status_code = 400
    /\ \A i \in 1..Len(deals_table) :
            deals_table[i].status = "processed" =>
                /\ deals_table[i].evaluation_json # None
                /\ deals_table[i].decision_json # None

\* a metrics read while one deal is between its two transactions and
\* another is processed
C28_Witness ==
    /\ in_flight # <<>>
    /\ metrics_result # None
    /\ metrics_result[1].total_deals = 2
    /\ metrics_result[1].auto_approved + metrics_result[1].escalated = 1

\* a pass counts every deal once, as auto-approved or as escalated, and
\* no team more often than there are escalated deals
PassConserves(metrics) ==
    /\ metrics.auto_approved + metrics.escalated = metrics.total_deals
    /\ \A team \in DOMAIN metrics.escalation_by_team :
            metrics.escalation_by_team[team] <= metrics.escalated

\* C29: simulation metrics conserve the population: in the original and in
\* the simulated pass auto_approved + escalated = total_deals, both passes
\* have the same total_deals, the delta of auto_approved is the negated
\* delta of escalated, and no team's escalation_by_team count exceeds the
\* pass's escalated count.
C29_PopulationConserved ==
    Simulated =>
        /\ PassConserves(sim_result.original)
        /\ PassConserves(sim_result.simulated)
        /\ sim_result.original.total_deals = sim_result.simulated.total_deals
        /\ sim_result.delta.auto_approved = 0 - sim_result.delta.escalated

\* a simulation that moves a deal from escalated to auto-approved while
\* another stays escalated
C29_Witness ==
    /\ Simulated
    /\ sim_result.original.total_deals = 2
    /\ sim_result.delta.auto_approved = 1
    /\ sim_result.delta.escalated = -1
    /\ sim_result.simulated.escalated = 1
    /\ DOMAIN sim_result.simulated.escalation_by_team # {}

\* the number of stored deals of a status
RowsWithStatus(status) ==
    Cardinality({i \in 1..Len(deals_table) : deals_table[i].status = status})

\* C30: the simulation population is exactly the deals with status
\* 'processed': after any sequence of store operations, total_deals of both
\* passes of a simulation is the number of stored deals with status
\* 'processed'; validated and overridden deals are not part of it.
C30_ProcessedPopulation ==
    sim_result # NoSimulationResult =>
        /\ sim_result.original.total_deals = RowsWithStatus("processed")
        /\ sim_result.simulated.total_deals = RowsWithStatus("processed")

\* a simulation over a store with an overridden deal next to a processed
\* one: only the processed deal is simulated
C30_Witness ==
    /\ sim_result # NoSimulationResult
    /\ RowsWithStatus("overridden") = 1
    /\ RowsWithStatus("processed") = 1
    /\ sim_result.original.total_deals = 1

====
